---- MODULE Spec2Model ----
(***************************************************************************)
(* Model of the revamp screen recorder: the export pipeline (encoder       *)
(* negotiator, zoom expression compiler, the retry state machine of        *)
(* renderProjectToMp4 around runRender), the auto-zoom segmentation, the   *)
(* studio's timeline edits and auto-save, and the record page.             *)
(*                                                                         *)
(* The specifications share the module's variables; each leaves the        *)
(* components it is not about idle:                                        *)
(*   Spec              the export of one project (renderProjectToMp4)      *)
(*   SpecProcessesEnd  Spec, with every transcoder process ending          *)
(*   SpecEncoder       pickEncoder / buildEncoderAttempts on any input     *)
(*   SpecZoom          createForegroundFilter against the preview          *)
(*   SpecAutoZoom      buildAutoZooms                                      *)
(*   SpecTimeline      the zoom segments under the studio's operations     *)
(*   SpecTransform     computeViewTransform                                *)
(*   SpecStderr        runRender's stderr listener, chunk by chunk         *)
(*   SpecBackground    the background image of the export                  *)
(*   SpecMargin        margin and interior size of the frame               *)
(*   SpecAutosave      the studio's save timer and save requests           *)
(*   SpecRecording     the record page from Start to the created project   *)
(***************************************************************************)
EXTENDS Integers, Sequences, FiniteSets, TLC

VARIABLES
    \* ---- renderProjectToMp4 (Spec) ----
    pc,               \* position of the async function
    encoderHint,      \* loaded.project.export.encoderHint
    fileExists,       \* is there a file at resolvedOutput
    encoders,         \* result of getAvailableEncoders
    preferredEncoder, \* result of pickEncoder
    encoderAttempts,  \* result of buildEncoderAttempts
    attempt,          \* index into encoderAttempts of the for loop
    children,         \* child processes spawned so far, one record per spawn
    stderrTail,       \* runRender's stderrTail of the current attempt
    lastError,        \* the lastError local
    lastEvent,        \* the latest 'close' or 'error' event a child emitted
    outcome,          \* how the returned promise settled
    journal,          \* what the export did to the outside, in the order of the code:
                      \* files removed, processes spawned and ended, messages sent
    \* ---- pickEncoder / buildEncoderAttempts on free inputs (SpecEncoder) ----
    fnAvailable, fnHint, fnPreferred, \* the arguments
    fnCalled,         \* the functions called so far
    fnPicked,         \* what pickEncoder returned
    fnAttempts,       \* what buildEncoderAttempts returned
    \* ---- zoom compiler and preview (SpecZoom) ----
    zooms,            \* project.timeline.zooms
    atMs,             \* the instant looked at (preview currentMs, export frame time)
    filter,           \* what createForegroundFilter compiled
    frame,            \* the compiled expressions evaluated for the frame at atMs
    preview,          \* activeZoom and computeViewTransform at atMs
    \* ---- buildAutoZooms on free inputs (SpecAutoZoom) ----
    azEvents, azDurationMs, azOptions, \* the arguments
    azCalled,         \* the calls made so far
    azZooms,          \* what buildAutoZooms(azEvents, ...) returned
    azShuffled,       \* what it returned for azEvents in another order
    \* ---- the project's zoom segments in the studio (SpecTimeline) ----
    projectStage,     \* "recorded": the recording is done; "open": the project exists
    projectEvents,    \* payload.events, later the event track
    projectDurationMs, \* payload.durationMs, later project.meta.durationMs
    projectZooms,     \* project.timeline.zooms
    currentMs,        \* the playhead
    edits,            \* number of edits made
    lastEdit,         \* the latest operation on the zooms
    \* ---- computeViewTransform on free inputs (SpecTransform) ----
    vtZoom, vtFrameWidth, vtFrameHeight, \* the arguments
    vtTransform,      \* what computeViewTransform returned
    \* ---- runRender's stderr listener, chunk by chunk (SpecStderr) ----
    rrStream,         \* what the transcoder of an attempt prints on stderr
    rrPending,        \* the part of it not yet delivered
    rrChunks,         \* number of 'data' events of the attempt
    rrTail,           \* runRender's stderrTail
    rrAttempt,        \* number of the encoder attempt
    rrSent,           \* the render:progress messages sent
    rrPhase,          \* running, returned or thrown
    \* ---- background image of the export (SpecBackground) ----
    bgBackground,     \* loaded.project.timeline.background (type, imagePath)
    bgImageExists,    \* is there a file at the resolved image path
    bgWindow,         \* is mainWindow there
    bgPc,             \* position of renderProjectToMp4
    bgSent,           \* the render:progress messages sent
    bgPlan,           \* the plan of the first attempt
    \* ---- margin and interior size on free inputs (SpecMargin) ----
    mgBackground,     \* project.timeline.background (padding, inset)
    mgExport,         \* exportSettings (width, height)
    mgScale,          \* the margin and the interior size of baseScale
    \* ---- auto-save of the studio (SpecAutosave) ----
    asProject,        \* StudioPage's project state
    asTimer,          \* the project the pending save timer will send, if one is pending
    asInFlight,       \* the project:save requests not yet answered, oldest first
    asDisk,           \* the project file as last written by saveProject
    asEdits,          \* number of edits the user has made
    asSaves,          \* number of project:save requests sent
    \* ---- the record page (SpecRecording) ----
    recState,         \* RecordPage's state
    recIntervals,     \* the countdown intervals that are set, with their `current`
    recCaptures,      \* the beginActualRecording calls awaiting the capture stream
    recRecorders,     \* the MediaRecorders created, in order
    recRef,           \* mediaRecorderRef.current: a place in recRecorders, 0 for null
    recStarts,        \* number of times Start was pressed
    recCancelledCountdown, \* a countdown was cancelled and Start not pressed since
    recPage           \* the page shown: record or studio

renderVars  == <<pc, encoderHint, fileExists, encoders, preferredEncoder,
                 encoderAttempts, attempt, children, stderrTail, lastError, lastEvent,
                 outcome, journal>>
encoderVars == <<fnAvailable, fnHint, fnPreferred, fnCalled, fnPicked, fnAttempts>>
zoomVars    == <<zooms, atMs, filter, frame, preview>>
autoZoomVars == <<azEvents, azDurationMs, azOptions, azCalled, azZooms, azShuffled>>
timelineVars == <<projectStage, projectEvents, projectDurationMs, projectZooms,
                  currentMs, edits, lastEdit>>
transformVars == <<vtZoom, vtFrameWidth, vtFrameHeight, vtTransform>>
stderrVars == <<rrStream, rrPending, rrChunks, rrTail, rrAttempt, rrSent, rrPhase>>
backgroundVars == <<bgBackground, bgImageExists, bgWindow, bgPc, bgSent, bgPlan>>
marginVars == <<mgBackground, mgExport, mgScale>>
autosaveVars == <<asProject, asTimer, asInFlight, asDisk, asEdits, asSaves>>
recordingVars == <<recState, recIntervals, recCaptures, recRecorders, recRef, recStarts,
                   recCancelledCountdown, recPage>>
restVars == <<autoZoomVars, timelineVars, transformVars, stderrVars, backgroundVars, marginVars, autosaveVars, recordingVars>>
outsideAutoZoom ==
    <<renderVars, encoderVars, zoomVars, timelineVars,
      transformVars, stderrVars, backgroundVars, marginVars, autosaveVars, recordingVars>>
outsideTimeline ==
    <<renderVars, encoderVars, zoomVars, autoZoomVars,
      transformVars, stderrVars, backgroundVars, marginVars, autosaveVars, recordingVars>>
outsideTransform ==
    <<renderVars, encoderVars, zoomVars, autoZoomVars,
      timelineVars, stderrVars, backgroundVars, marginVars, autosaveVars, recordingVars>>
outsideStderr ==
    <<renderVars, encoderVars, zoomVars, autoZoomVars,
      timelineVars, transformVars, backgroundVars, marginVars, autosaveVars, recordingVars>>
outsideBackground ==
    <<renderVars, encoderVars, zoomVars, autoZoomVars,
      timelineVars, transformVars, stderrVars, marginVars, autosaveVars, recordingVars>>
outsideMargin ==
    <<renderVars, encoderVars, zoomVars, autoZoomVars,
      timelineVars, transformVars, stderrVars, backgroundVars, autosaveVars, recordingVars>>
outsideAutosave ==
    <<renderVars, encoderVars, zoomVars, autoZoomVars,
      timelineVars, transformVars, stderrVars, backgroundVars, marginVars, recordingVars>>
outsideRecording ==
    <<renderVars, encoderVars, zoomVars, autoZoomVars,
      timelineVars, transformVars, stderrVars, backgroundVars, marginVars, autosaveVars>>
vars        == <<renderVars, encoderVars, zoomVars, restVars>>

None == "none"

\* undefined, where a record may stand
Undefined == [undefined |-> TRUE]

(***************************************************************************)
(* Encoder negotiator                                                      *)
(***************************************************************************)
EncoderChoice == {"h264_nvenc", "h264_qsv", "h264_amf", "libx264", "mpeg4"}

ENCODER_PRIORITY == <<"h264_nvenc", "h264_qsv", "h264_amf", "libx264", "mpeg4">>

EncoderHints == {"auto", "nvenc", "qsv", "amf", "mpeg4"}

\* The for loop of pickEncoder over the hardware encoders, from position i.
RECURSIVE firstHardware(_, _, _)
firstHardware(available, candidates, i) ==
    IF i > Len(candidates) THEN None
    ELSE IF candidates[i] \in available THEN candidates[i]
    ELSE firstHardware(available, candidates, i + 1)

pickEncoderIgnoringPriority(available, hint) ==
    IF hint = "nvenc" /\ "h264_nvenc" \in available THEN "h264_nvenc"
    ELSE IF hint = "qsv" /\ "h264_qsv" \in available THEN "h264_qsv"
    ELSE IF hint = "amf" /\ "h264_amf" \in available THEN "h264_amf"
    ELSE IF hint = "mpeg4" /\ "mpeg4" \in available THEN "mpeg4"
    ELSE IF hint = "auto" /\ firstHardware(available, <<"h264_nvenc", "h264_qsv", "h264_amf">>, 1) # None
         THEN firstHardware(available, <<"h264_nvenc", "h264_qsv", "h264_amf">>, 1)
    ELSE IF "libx264" \in available THEN "libx264"
    ELSE "mpeg4"

pickEncoderHintFirstOnly(available, hint) ==
    IF hint = "nvenc" /\ "h264_nvenc" \in available THEN "h264_nvenc"
    ELSE IF firstHardware(available, <<"h264_nvenc", "h264_qsv", "h264_amf">>, 1) # None
         THEN firstHardware(available, <<"h264_nvenc", "h264_qsv", "h264_amf">>, 1)
    ELSE IF "libx264" \in available THEN "libx264"
    ELSE "mpeg4"

pickEncoder(available, hint) ==
    IF hint = "nvenc" /\ "h264_nvenc" \in available THEN "h264_nvenc"
    ELSE IF hint = "qsv" /\ "h264_qsv" \in available THEN "h264_qsv"
    ELSE IF hint = "amf" /\ "h264_amf" \in available THEN "h264_amf"
    ELSE IF hint = "mpeg4" /\ "mpeg4" \in available THEN "mpeg4"
    ELSE IF firstHardware(available, <<"h264_nvenc", "h264_qsv", "h264_amf">>, 1) # None
         THEN firstHardware(available, <<"h264_nvenc", "h264_qsv", "h264_amf">>, 1)
    ELSE IF "libx264" \in available THEN "libx264"
    ELSE "mpeg4"

\* The closure push of buildEncoderAttempts.
push(attempts, encoder) ==
    IF \E i \in 1..Len(attempts) : attempts[i] = encoder
    THEN attempts
    ELSE Append(attempts, encoder)

\* The for loop of buildEncoderAttempts over ENCODER_PRIORITY, from position i.
RECURSIVE pushAvailable(_, _, _)
pushAvailable(attempts, available, i) ==
    IF i > Len(ENCODER_PRIORITY) THEN attempts
    ELSE pushAvailable(
            IF ENCODER_PRIORITY[i] \in available
            THEN push(attempts, ENCODER_PRIORITY[i])
            ELSE attempts,
            available, i + 1)

buildEncoderAttemptsNoFallbacks(available, preferred) ==
    pushAvailable(push(<<>>, preferred), available, 1)

buildEncoderAttempts(available, preferred) ==
    push(push(pushAvailable(push(<<>>, preferred), available, 1), "libx264"), "mpeg4")

\* The elements of a sequence.
Range(s) == {s[i] : i \in 1..Len(s)}

(***************************************************************************)
(* Numbers.  A JavaScript number is modelled by the rational <<n, d>> it   *)
(* stands for (d > 0, lowest terms); arithmetic is exact.                  *)
(***************************************************************************)
RECURSIVE Gcd(_, _)
Gcd(a, b) == IF b = 0 THEN a ELSE Gcd(b, a % b)

Abs(a) == IF a < 0 THEN -a ELSE a

Num(n, d) == LET g == Gcd(Abs(n), d) IN <<n \div g, d \div g>>

Whole(n) == <<n, 1>>

Lcm(a, b) == (a \div Gcd(a, b)) * b

Add(a, b) == LET l == Lcm(a[2], b[2])
             IN  Num(a[1] * (l \div a[2]) + b[1] * (l \div b[2]), l)

Sub(a, b) == LET l == Lcm(a[2], b[2])
             IN  Num(a[1] * (l \div a[2]) - b[1] * (l \div b[2]), l)

Mul(a, b) == LET g1 == Gcd(Abs(a[1]), b[2])
                 g2 == Gcd(Abs(b[1]), a[2])
             IN  Num((a[1] \div g1) * (b[1] \div g2), (a[2] \div g2) * (b[2] \div g1))

\* a / b for b > 0
Div(a, b) == Mul(a, <<b[2], b[1]>>)

Le(a, b) == Sub(a, b)[1] <= 0

Lt(a, b) == Sub(a, b)[1] < 0

MathMin(a, b) == IF Le(a, b) THEN a ELSE b

MathMax(a, b) == IF Le(a, b) THEN b ELSE a

RECURSIVE Pow10(_)
Pow10(k) == IF k = 0 THEN 1 ELSE 10 * Pow10(k - 1)

\* Number.prototype.toFixed(digits) for v >= 0, read back as a number: the
\* nearest multiple of 10^-digits, the larger one on a tie.
toFixed(v, digits) ==
    Num((2 * v[1] * Pow10(digits) + v[2]) \div (2 * v[2]), Pow10(digits))

(***************************************************************************)
(* Zoom expressions of the export (render-engine)                          *)
(***************************************************************************)
toSeconds(ms) == toFixed(Div(ms, Whole(1000)), 3)

\* The loop run from the first segment up: the last segment ends outermost.
toPiecewiseExpressionAscending(segments, pickValue, fallback) ==
    LET expression[index \in 0..Len(segments)] ==
            IF index = 0 THEN <<"lit", fallback>>
            ELSE <<"if", toSeconds(segments[index].startMs), toSeconds(segments[index].endMs),
                   pickValue[segments[index]], expression[index - 1]>>
    IN  expression[Len(segments)]

\* The expression text if(between(t,lo,hi),value,rest) is the tuple
\* <<"if", lo, hi, value, rest>>; a number literal is <<"lit", v>>.
\* expression[index] is the local `expression` once the loop has handled the
\* segments index..Len(segments) (the loop runs from the last segment down).
toPiecewiseExpression(segments, pickValue, fallback) ==
    IF Len(segments) = 0 THEN <<"lit", fallback>>
    ELSE LET expression[index \in 1..(Len(segments) + 1)] ==
                 IF index = Len(segments) + 1 THEN <<"lit", fallback>>
                 ELSE <<"if", toSeconds(segments[index].startMs), toSeconds(segments[index].endMs),
                        pickValue[segments[index]], expression[index + 1]>>
         IN  expression[1]

\* project.timeline.zooms.filter(...) of createForegroundFilter
activeZooms(zs) == SelectSeq(zs, LAMBDA segment : ~segment.disabled /\ Lt(Whole(1), segment.level))

pickLevel(segment) == toFixed(MathMax(Whole(1), segment.level), 4)

pickXNorm(segment) ==
    toFixed(IF segment.manualTarget = Undefined THEN <<1, 2>> ELSE segment.manualTarget.xNorm, 4)

pickYNorm(segment) ==
    toFixed(IF segment.manualTarget = Undefined THEN <<1, 2>> ELSE segment.manualTarget.yNorm, 4)

\* The pickValue arrow functions, as functions on the segments handed over.
valueByLevel(segments) == [segment \in Range(segments) |-> pickLevel(segment)]

valueByXNorm(segments) == [segment \in Range(segments) |-> pickXNorm(segment)]

valueByYNorm(segments) == [segment \in Range(segments) |-> pickYNorm(segment)]

createForegroundFilterLastWins(zs) ==
    IF Len(activeZooms(zs)) = 0
    THEN [dynamicZoom |-> FALSE]
    ELSE [dynamicZoom |-> TRUE,
          zoomExpression  |-> toPiecewiseExpressionAscending(activeZooms(zs), valueByLevel(activeZooms(zs)), Whole(1)),
          xNormExpression |-> toPiecewiseExpressionAscending(activeZooms(zs), valueByXNorm(activeZooms(zs)), <<1, 2>>),
          yNormExpression |-> toPiecewiseExpressionAscending(activeZooms(zs), valueByYNorm(activeZooms(zs)), <<1, 2>>)]

\* What createForegroundFilter returns: baseScale alone (dynamicZoom FALSE),
\* or the dynamic scale and crop built from the three expressions.
createForegroundFilter(zs) ==
    IF Len(activeZooms(zs)) = 0
    THEN [dynamicZoom |-> FALSE]
    ELSE [dynamicZoom |-> TRUE,
          zoomExpression  |-> toPiecewiseExpression(activeZooms(zs), valueByLevel(activeZooms(zs)), Whole(1)),
          xNormExpression |-> toPiecewiseExpression(activeZooms(zs), valueByXNorm(activeZooms(zs)), <<1, 2>>),
          yNormExpression |-> toPiecewiseExpression(activeZooms(zs), valueByYNorm(activeZooms(zs)), <<1, 2>>)]

\* The transcoder's value of an expression at time t (seconds):
\* between(t,lo,hi) is lo <= t <= hi, if(c,a,b) is a when c holds, else b.
RECURSIVE evaluate(_, _)
evaluate(expression, t) ==
    IF expression[1] = "lit" THEN expression[2]
    ELSE IF Le(expression[2], t) /\ Le(t, expression[3]) THEN expression[4]
    ELSE evaluate(expression[5], t)

\* max(0,min(iw*(Z)-iw,iw*(N)*(Z)-iw/2)) with Z and N the values of the zoom
\* and norm expressions at t
cropOffset(zoomExpression, normExpression, iw, t) ==
    LET z == evaluate(zoomExpression, t)
        n == evaluate(normExpression, t)
    IN  MathMax(Whole(0),
                MathMin(Sub(Mul(iw, z), iw),
                        Sub(Mul(Mul(iw, n), z), Div(iw, Whole(2)))))

\* scale=iw*(Z):ih*(Z):eval=frame with the zoom ignored
scaledSizeUnzoomed(iw, zoomExpression, t) == iw

\* scale=iw*(Z):ih*(Z):eval=frame of line 98: the size of the scaled frame at
\* time t, for a source frame of size iw
scaledSize(iw, zoomExpression, t) == Mul(iw, evaluate(zoomExpression, t))

\* crop=iw:ih of line 98: the window cut out of the scaled frame has the size
\* of the source frame
cropSize(iw) == iw

(***************************************************************************)
(* Preview (editor-core, StudioPage)                                       *)
(***************************************************************************)
clamp(value, min, max) == MathMin(MathMax(value, min), max)

\* Array.prototype.find: the first matching segment, undefined without one
getZoomAtTime(zs, ms) ==
    LET hits == {i \in 1..Len(zs) :
                    ~zs[i].disabled /\ Le(zs[i].startMs, ms) /\ Le(ms, zs[i].endMs)}
    IN  IF hits = {} THEN Undefined ELSE zs[CHOOSE i \in hits : \A j \in hits : i <= j]

\* The viewport centred on the target without the clamp to the frame.
computeViewTransformCentred(zoom, frameWidth, frameHeight) ==
    IF zoom = Undefined
    THEN [scale |-> Whole(1), xPx |-> Whole(0), yPx |-> Whole(0)]
    ELSE LET scale == clamp(zoom.level, Whole(1), Whole(4))
             target == IF zoom.manualTarget = Undefined
                       THEN [xNorm |-> <<1, 2>>, yNorm |-> <<1, 2>>]
                       ELSE zoom.manualTarget
         IN  [scale |-> scale,
              xPx |-> Sub(Mul(target.xNorm, frameWidth),
                          Div(Div(frameWidth, scale), Whole(2))),
              yPx |-> Sub(Mul(target.yNorm, frameHeight),
                          Div(Div(frameHeight, scale), Whole(2)))]

computeViewTransform(zoom, frameWidth, frameHeight) ==
    IF zoom = Undefined
    THEN [scale |-> Whole(1), xPx |-> Whole(0), yPx |-> Whole(0)]
    ELSE LET scale == clamp(zoom.level, Whole(1), Whole(4))
             target == IF zoom.manualTarget = Undefined
                       THEN [xNorm |-> <<1, 2>>, yNorm |-> <<1, 2>>]
                       ELSE zoom.manualTarget
             targetXPx == Mul(target.xNorm, frameWidth)
             targetYPx == Mul(target.yNorm, frameHeight)
             viewportWidth == Div(frameWidth, scale)
             viewportHeight == Div(frameHeight, scale)
         IN  [scale |-> scale,
              xPx |-> clamp(Sub(targetXPx, Div(viewportWidth, Whole(2))),
                            Whole(0), Sub(frameWidth, viewportWidth)),
              yPx |-> clamp(Sub(targetYPx, Div(viewportHeight, Whole(2))),
                            Whole(0), Sub(frameHeight, viewportHeight))]

(***************************************************************************)
(* Auto-zoom segmentation (recording-engine)                               *)
(***************************************************************************)
\* An optional number that is absent (event.xNorm, event.yNorm).
Missing == <<>>

defaultAutoZoomOptions ==
    [includeClicks |-> TRUE, includeTyping |-> TRUE, includeFocus |-> TRUE,
     defaultZoomLevel |-> <<9, 5>>, segmentMs |-> 1500, mergeGapMs |-> 280]

\* { ...defaultAutoZoomOptions, ...options }
mergeOptions(options) ==
    [key \in DOMAIN defaultAutoZoomOptions |->
        IF key \in DOMAIN options THEN options[key] ELSE defaultAutoZoomOptions[key]]

shouldUseEvent(event, options) ==
    IF event.kind = "click" THEN options.includeClicks
    ELSE IF event.kind = "typing" THEN options.includeTyping
    ELSE IF event.kind = "focus" THEN options.includeFocus
    ELSE FALSE

toSignal(kind) ==
    IF kind = "click" THEN "click"
    ELSE IF kind = "typing" THEN "typing"
    ELSE "focus"

\* [...events].sort((a, b) => a.atMs - b.atMs): the sort is stable, events of
\* equal atMs stay in the order of the input.
RECURSIVE sortByAtMs(_)
sortByAtMs(events) ==
    IF Len(events) = 0 THEN <<>>
    ELSE LET front == sortByAtMs(SubSeq(events, 1, Len(events) - 1))
             event == events[Len(events)]
             keep  == Cardinality({i \in 1..Len(front) : front[i].atMs <= event.atMs})
         IN  SubSeq(front, 1, keep) \o <<event>> \o SubSeq(front, keep + 1, Len(front))

\* The map callback: the candidate segment of one event (the random id is
\* left out).
toSegment(event, durationMs, options) ==
    [startMs |-> MathMax(Whole(0), Whole(event.atMs - 120)),
     endMs |-> MathMin(durationMs, Whole(event.atMs + options.segmentMs)),
     level |-> options.defaultZoomLevel,
     mode |-> "auto",
     manualTarget |-> [xNorm |-> IF event.xNorm = Missing THEN <<1, 2>> ELSE event.xNorm,
                       yNorm |-> IF event.yNorm = Missing THEN <<1, 2>> ELSE event.yNorm],
     instant |-> FALSE,
     disabled |-> FALSE,
     sourceSignal |-> toSignal(event.kind)]

\* The merge loop with a gap of exactly mergeGapMs not counted as close.
RECURSIVE mergeSegmentsStrictGap(_, _, _, _)
mergeSegmentsStrictGap(raw, index, merged, options) ==
    IF index > Len(raw) THEN merged
    ELSE LET segment == raw[index]
         IN  IF Len(merged) = 0
             THEN mergeSegmentsStrictGap(raw, index + 1, Append(merged, segment), options)
             ELSE LET last == merged[Len(merged)]
                      sameSignal == last.sourceSignal = segment.sourceSignal
                      closeEnough == Lt(Sub(segment.startMs, last.endMs),
                                        Whole(options.mergeGapMs))
                  IN  IF sameSignal /\ closeEnough
                      THEN mergeSegmentsStrictGap(raw, index + 1,
                               [merged EXCEPT ![Len(merged)] =
                                   [last EXCEPT !.endMs = MathMax(last.endMs, segment.endMs),
                                                !.manualTarget = segment.manualTarget]],
                               options)
                      ELSE mergeSegmentsStrictGap(raw, index + 1, Append(merged, segment), options)

\* The merge loop over raw from position index, merged being the segments
\* accepted so far.
RECURSIVE mergeSegments(_, _, _, _)
mergeSegments(raw, index, merged, options) ==
    IF index > Len(raw) THEN merged
    ELSE LET segment == raw[index]
         IN  IF Len(merged) = 0
             THEN mergeSegments(raw, index + 1, Append(merged, segment), options)
             ELSE LET last == merged[Len(merged)]
                      sameSignal == last.sourceSignal = segment.sourceSignal
                      closeEnough == Le(Sub(segment.startMs, last.endMs),
                                        Whole(options.mergeGapMs))
                  IN  IF sameSignal /\ closeEnough
                      THEN mergeSegments(raw, index + 1,
                               [merged EXCEPT ![Len(merged)] =
                                   [last EXCEPT !.endMs = MathMax(last.endMs, segment.endMs),
                                                !.manualTarget = segment.manualTarget]],
                               options)
                      ELSE mergeSegments(raw, index + 1, Append(merged, segment), options)

buildAutoZooms(events, durationMs, options) ==
    LET mergedOptions == mergeOptions(options)
        sorted == sortByAtMs(events)
        used == SelectSeq(sorted, LAMBDA event : shouldUseEvent(event, mergedOptions))
        raw == [i \in 1..Len(used) |-> toSegment(used[i], durationMs, mergedOptions)]
    IN  IF Len(raw) < 2 THEN raw ELSE mergeSegments(raw, 1, <<>>, mergedOptions)

(***************************************************************************)
(* Timeline edits of the studio (StudioPage) and project creation          *)
(***************************************************************************)
\* The id (crypto.randomUUID()) of a segment is its position in the list.
createManualZoom(ms) ==
    [startMs |-> MathMax(Whole(0), ms),
     endMs |-> MathMax(Whole(500), Add(ms, Whole(1400))),
     level |-> <<9, 5>>,
     mode |-> "manual",
     manualTarget |-> [xNorm |-> <<1, 2>>, yNorm |-> <<1, 2>>],
     instant |-> FALSE,
     disabled |-> FALSE,
     sourceSignal |-> None]

createInstantZoom(ms) ==
    [createManualZoom(ms) EXCEPT !.endMs = Add(ms, Whole(800)), !.instant = TRUE]

\* The map of moveZoomBoundary over draft.timeline.zooms.
moveZoomBoundary(zs, id, edge, nextMs, durationMs) ==
    [i \in 1..Len(zs) |->
        IF i # id THEN zs[i]
        ELSE IF edge = "start"
             THEN [zs[i] EXCEPT !.startMs =
                      MathMax(Whole(0), MathMin(nextMs, Sub(zs[i].endMs, Whole(100))))]
             ELSE [zs[i] EXCEPT !.endMs =
                      MathMin(durationMs, MathMax(nextMs, Add(zs[i].startMs, Whole(100))))]]

\* Math.max(1, Math.round(payload.durationMs)) for a whole number of ms
metaDurationMs(durationMs) == MathMax(Whole(1), durationMs)

(***************************************************************************)
(* Background image of the export (render-service, createRenderPlan)       *)
(***************************************************************************)
\* A raw imagePath is described by what the code asks of it: is it set, is
\* it blank after trim(), does it start with file://, does fileURLToPath
\* accept it, is the path it names absolute.
NoPath == [resolved |-> FALSE]

resolveBackgroundImagePath(rawPath) ==
    IF ~rawPath.given \/ rawPath.blank THEN NoPath
    ELSE IF rawPath.fileUrl /\ ~rawPath.parsable THEN NoPath
    ELSE [resolved |-> TRUE,
          path |-> IF rawPath.fileUrl THEN "fileURLToPath(trimmed)"
                   ELSE IF rawPath.absolute THEN "trimmed"
                   ELSE "path.resolve(projectDirectory, trimmed)"]

\* Lines 231-235 of renderProjectToMp4
resolvedBackgroundImagePath(background) ==
    IF background.type = "image" THEN resolveBackgroundImagePath(background.imagePath)
    ELSE NoPath

hasBackgroundImage(background, exists) ==
    resolvedBackgroundImagePath(background).resolved /\ exists

\* The condition of the warning (line 236)
warnsAboutBackground(background, exists) ==
    /\ background.type = "image"
    /\ resolvedBackgroundImagePath(background).resolved
    /\ ~hasBackgroundImage(background, exists)

\* createRenderPlan: imageBackgroundEnabled, given options.backgroundImagePath
imageBackgroundEnabled(background, backgroundImagePath) ==
    background.type = "image" /\ backgroundImagePath.resolved

(***************************************************************************)
(* Frame margin and interior size of the export (render-engine)            *)
(***************************************************************************)
\* Math.round for v >= 0, as a whole number
MathRound(v) == (2 * v[1] + v[2]) \div (2 * v[2])

IntMin(a, b) == IF a <= b THEN a ELSE b

IntMax(a, b) == IF a <= b THEN b ELSE a

\* Math.floor(n / 2) for a whole number n
FloorHalf(n) == n \div 2

computeFrameMargin(background, exportSettings) ==
    LET requestedMargin == IntMax(0, MathRound(background.padding) + MathRound(background.inset))
        maxAllowedMargin == IntMax(0, IntMin(FloorHalf(exportSettings.width - 2),
                                             FloorHalf(exportSettings.height - 2)))
    IN  IntMin(requestedMargin, maxAllowedMargin)

\* Lines 69-72 of createForegroundFilter: the margin and the size baseScale
\* scales the foreground to.
baseScale(background, exportSettings) ==
    LET margin == computeFrameMargin(background, exportSettings)
    IN  [margin |-> margin,
         innerWidth |-> IntMax(2, exportSettings.width - margin * 2),
         innerHeight |-> IntMax(2, exportSettings.height - margin * 2)]

(***************************************************************************)
(* Idle components: a specification about one component leaves the others *)
(* in these states.                                                        *)
(***************************************************************************)
RenderIdle ==
    /\ pc = "idle" /\ encoderHint = None /\ fileExists = FALSE
    /\ encoders = <<>> /\ preferredEncoder = None /\ encoderAttempts = <<>>
    /\ attempt = 0 /\ children = <<>> /\ stderrTail = <<>>
    /\ lastError = Undefined /\ lastEvent = Undefined /\ outcome = [status |-> "pending"]
    /\ journal = <<>>

EncoderIdle ==
    /\ fnAvailable = {} /\ fnHint = None /\ fnPreferred = None /\ fnCalled = {}
    /\ fnPicked = None /\ fnAttempts = <<>>

ZoomIdle ==
    /\ zooms = <<>> /\ atMs = Whole(0)
    /\ filter = Undefined /\ frame = Undefined /\ preview = Undefined

AutoZoomIdle ==
    /\ azEvents = <<>> /\ azDurationMs = Whole(0) /\ azOptions = Undefined
    /\ azCalled = {} /\ azZooms = <<>> /\ azShuffled = <<>>

TimelineIdle ==
    /\ projectStage = "idle" /\ projectEvents = <<>> /\ projectDurationMs = Whole(0)
    /\ projectZooms = <<>> /\ currentMs = Whole(0) /\ edits = 0 /\ lastEdit = None
TransformIdle ==
    /\ vtZoom = Undefined /\ vtFrameWidth = Whole(0) /\ vtFrameHeight = Whole(0)
    /\ vtTransform = Undefined
StderrIdle ==
    /\ rrStream = <<>> /\ rrPending = <<>> /\ rrChunks = 0 /\ rrTail = <<>>
    /\ rrAttempt = 0 /\ rrSent = <<>> /\ rrPhase = "idle"
BackgroundIdle ==
    /\ bgBackground = Undefined /\ bgImageExists = FALSE /\ bgWindow = FALSE
    /\ bgPc = "idle" /\ bgSent = <<>> /\ bgPlan = Undefined
MarginIdle ==
    /\ mgBackground = Undefined /\ mgExport = Undefined /\ mgScale = Undefined
AutosaveIdle ==
    /\ asProject = Undefined /\ asTimer = Undefined /\ asInFlight = <<>>
    /\ asDisk = Undefined /\ asEdits = 0 /\ asSaves = 0
RecordingIdle ==
    /\ recState = "idle" /\ recIntervals = {} /\ recCaptures = {} /\ recRecorders = <<>>
    /\ recRef = 0 /\ recStarts = 0 /\ recCancelledCountdown = FALSE /\ recPage = "none"

RestIdle == AutoZoomIdle /\ TimelineIdle /\ TransformIdle /\ StderrIdle /\ BackgroundIdle /\ MarginIdle /\ AutosaveIdle /\ RecordingIdle
OutsideAutoZoomIdle ==
    /\ RenderIdle /\ EncoderIdle /\ ZoomIdle /\ TimelineIdle
    /\ TransformIdle /\ StderrIdle /\ BackgroundIdle /\ MarginIdle /\ AutosaveIdle /\ RecordingIdle
OutsideTimelineIdle ==
    /\ RenderIdle /\ EncoderIdle /\ ZoomIdle /\ AutoZoomIdle
    /\ TransformIdle /\ StderrIdle /\ BackgroundIdle /\ MarginIdle /\ AutosaveIdle /\ RecordingIdle
OutsideTransformIdle ==
    /\ RenderIdle /\ EncoderIdle /\ ZoomIdle /\ AutoZoomIdle
    /\ TimelineIdle /\ StderrIdle /\ BackgroundIdle /\ MarginIdle /\ AutosaveIdle /\ RecordingIdle
OutsideStderrIdle ==
    /\ RenderIdle /\ EncoderIdle /\ ZoomIdle /\ AutoZoomIdle
    /\ TimelineIdle /\ TransformIdle /\ BackgroundIdle /\ MarginIdle /\ AutosaveIdle /\ RecordingIdle
OutsideBackgroundIdle ==
    /\ RenderIdle /\ EncoderIdle /\ ZoomIdle /\ AutoZoomIdle
    /\ TimelineIdle /\ TransformIdle /\ StderrIdle /\ MarginIdle /\ AutosaveIdle /\ RecordingIdle
OutsideMarginIdle ==
    /\ RenderIdle /\ EncoderIdle /\ ZoomIdle /\ AutoZoomIdle
    /\ TimelineIdle /\ TransformIdle /\ StderrIdle /\ BackgroundIdle /\ AutosaveIdle /\ RecordingIdle
OutsideAutosaveIdle ==
    /\ RenderIdle /\ EncoderIdle /\ ZoomIdle /\ AutoZoomIdle
    /\ TimelineIdle /\ TransformIdle /\ StderrIdle /\ BackgroundIdle /\ MarginIdle /\ RecordingIdle
OutsideRecordingIdle ==
    /\ RenderIdle /\ EncoderIdle /\ ZoomIdle /\ AutoZoomIdle
    /\ TimelineIdle /\ TransformIdle /\ StderrIdle /\ BackgroundIdle /\ MarginIdle /\ AutosaveIdle

(***************************************************************************)
(* SpecEncoder: the two negotiator functions on every input                *)
(***************************************************************************)
InitEncoder ==
    /\ RenderIdle /\ ZoomIdle /\ RestIdle
    /\ fnAvailable \in SUBSET EncoderChoice
    /\ fnHint \in EncoderHints
    /\ fnPreferred \in EncoderChoice
    /\ fnCalled = {}
    /\ fnPicked = None /\ fnAttempts = <<>>

CallPickEncoder ==
    /\ "pickEncoder" \notin fnCalled
    /\ fnCalled' = fnCalled \cup {"pickEncoder"}
    /\ fnPicked' = pickEncoder(fnAvailable, fnHint)
    /\ UNCHANGED <<fnAvailable, fnHint, fnPreferred, fnAttempts, renderVars, zoomVars, restVars>>

CallBuildEncoderAttempts ==
    /\ "buildEncoderAttempts" \notin fnCalled
    /\ fnCalled' = fnCalled \cup {"buildEncoderAttempts"}
    /\ fnAttempts' = buildEncoderAttempts(fnAvailable, fnPreferred)
    /\ UNCHANGED <<fnAvailable, fnHint, fnPreferred, fnPicked, renderVars, zoomVars, restVars>>

NextEncoder == CallPickEncoder \/ CallBuildEncoderAttempts

SpecEncoder == InitEncoder /\ [][NextEncoder]_vars

(***************************************************************************)
(* SpecZoom: one timeline, compiled for the export and shown in the        *)
(* preview at the same instant                                             *)
(***************************************************************************)
MaxZooms == 2

FrameWidth == 1920

FrameHeight == 1080

\* Segment boundaries and instants in ms; 1000.4 and 1000.2 are times between
\* two whole milliseconds, as video.currentTime * 1000 produces them.
Intervals == {<<Whole(0), <<5002, 5>>>>, <<Whole(0), Whole(2000)>>}

Instants == {Whole(500), <<5001, 5>>, Whole(2500)}

Levels == {Whole(1), <<9, 5>>, <<5, 2>>}

Targets == {Undefined, [xNorm |-> <<33333, 100000>>, yNorm |-> <<3, 4>>]}

\* The segment {start: 0, end: 1000, level: 2, target: (0.25, 0.75)}
ExampleSegment ==
    [startMs |-> Whole(0), endMs |-> Whole(1000), level |-> Whole(2),
     manualTarget |-> [xNorm |-> <<1, 4>>, yNorm |-> <<3, 4>>], disabled |-> FALSE]

ZoomSegments ==
    {[startMs |-> iv[1], endMs |-> iv[2], level |-> lv, manualTarget |-> tg, disabled |-> ds] :
        iv \in Intervals, lv \in Levels, tg \in Targets, ds \in BOOLEAN}
    \cup {ExampleSegment}

InitZoom ==
    /\ RenderIdle /\ EncoderIdle /\ RestIdle
    /\ zooms \in UNION {[1..n -> ZoomSegments] : n \in 0..MaxZooms}
    /\ atMs \in Instants
    /\ filter = Undefined /\ frame = Undefined /\ preview = Undefined

\* createFilterGraph / createRenderPlan compile the timeline
CompileFilter ==
    /\ filter = Undefined
    /\ filter' = createForegroundFilter(zooms)
    /\ UNCHANGED <<zooms, atMs, frame, preview, renderVars, encoderVars, restVars>>

\* The transcoder evaluates the compiled filter for the frame at atMs: the
\* scale factor, the target, the size of the scaled frame, and the crop window
\* cut out of it (iw, ih the source size).
RenderFrame ==
    /\ filter # Undefined /\ frame = Undefined
    /\ frame' =
         IF ~filter.dynamicZoom THEN [dynamicZoom |-> FALSE]
         ELSE LET t == Div(atMs, Whole(1000))
              IN  [dynamicZoom |-> TRUE,
                   zoom  |-> evaluate(filter.zoomExpression, t),
                   xNorm |-> evaluate(filter.xNormExpression, t),
                   yNorm |-> evaluate(filter.yNormExpression, t),
                   scaleW |-> scaledSize(Whole(FrameWidth), filter.zoomExpression, t),
                   scaleH |-> scaledSize(Whole(FrameHeight), filter.zoomExpression, t),
                   cropW |-> cropSize(Whole(FrameWidth)),
                   cropH |-> cropSize(Whole(FrameHeight)),
                   cropX |-> cropOffset(filter.zoomExpression, filter.xNormExpression,
                                        Whole(FrameWidth), t),
                   cropY |-> cropOffset(filter.zoomExpression, filter.yNormExpression,
                                        Whole(FrameHeight), t)]
    /\ UNCHANGED <<zooms, atMs, filter, preview, renderVars, encoderVars, restVars>>

\* StudioPage's activeZoom and transform memos at currentMs = atMs
ShowPreview ==
    /\ preview = Undefined
    /\ LET found == getZoomAtTime(zooms, atMs)
       IN  preview' = [activeZoom |-> found,
                       transform |-> computeViewTransform(
                           found, Whole(FrameWidth), Whole(FrameHeight))]
    /\ UNCHANGED <<zooms, atMs, filter, frame, renderVars, encoderVars, restVars>>

NextZoom == CompileFilter \/ RenderFrame \/ ShowPreview

SpecZoom == InitZoom /\ [][NextZoom]_vars

(***************************************************************************)
(* Spec: renderProjectToMp4 and the runRender calls it awaits               *)
(***************************************************************************)
MaxStderrLines == 1

TailLimit == 30

ExitCodes == {0, 1}

StderrLines == {"frame=1"}

\* The close handler of getAvailableEncoders: stdoutNames are the encoder
\* names the probe's stdout holds.
availableEncoders(stdoutNames) ==
    LET found == SelectSeq(ENCODER_PRIORITY, LAMBDA name : name \in stdoutNames)
    IN  IF Len(found) > 0 THEN found ELSE <<"libx264", "mpeg4">>

\* stderrTail.push(line), shifting beyond the limit
pushTail(tail, line) ==
    IF Len(tail) + 1 > TailLimit THEN Tail(Append(tail, line)) ELSE Append(tail, line)

(***************************************************************************)
(* The stderr listener of runRender (render-engine), character by          *)
(* character.  A string is the sequence of its characters.                 *)
(***************************************************************************)
DigitChars == <<"0", "1", "2", "3", "4", "5", "6", "7", "8", "9">>

IsDigit(char) == \E k \in 1..10 : DigitChars[k] = char

\* Number(text) for a run of digits
RECURSIVE NumberOfDigits(_)
NumberOfDigits(text) ==
    IF Len(text) = 0 THEN 0
    ELSE 10 * NumberOfDigits(SubSeq(text, 1, Len(text) - 1))
         + (CHOOSE k \in 1..10 : DigitChars[k] = text[Len(text)]) - 1

\* The end of the longest run of digits of text that starts at position from
\* (from - 1 when there is no digit at from): what \d+ takes.
RECURSIVE digitsEnd(_, _)
digitsEnd(text, from) ==
    IF from <= Len(text) /\ IsDigit(text[from]) THEN digitsEnd(text, from + 1) ELSE from - 1

HasAt(text, at, char) == at <= Len(text) /\ text[at] = char

\* /time=(\d+):(\d+):(\d+\.\d+)/ tried at position start of line: the groups
\* of the match as positions, or no match.
matchAt(line, start) ==
    LET h1 == start + 5
        h2 == digitsEnd(line, h1)
        m1 == h2 + 2
        m2 == digitsEnd(line, m1)
        s1 == m2 + 2
        s2 == digitsEnd(line, s1)
        f1 == s2 + 2
        f2 == digitsEnd(line, f1)
    IN  IF /\ start + 4 <= Len(line)
           /\ SubSeq(line, start, start + 4) = <<"t", "i", "m", "e", "=">>
           /\ h2 >= h1 /\ HasAt(line, h2 + 1, ":")
           /\ m2 >= m1 /\ HasAt(line, m2 + 1, ":")
           /\ s2 >= s1 /\ HasAt(line, s2 + 1, ".")
           /\ f2 >= f1
        THEN [matched |-> TRUE,
              hours |-> SubSeq(line, h1, h2), minutes |-> SubSeq(line, m1, m2),
              whole |-> SubSeq(line, s1, s2), fraction |-> SubSeq(line, f1, f2)]
        ELSE [matched |-> FALSE]

\* RegExp.prototype.exec: the match at the leftmost position that has one
RECURSIVE exec(_, _)
exec(line, start) ==
    IF start > Len(line) THEN [matched |-> FALSE]
    ELSE IF matchAt(line, start).matched THEN matchAt(line, start)
    ELSE exec(line, start + 1)

\* Lines 192-197: the ratio of a matched stamp
ratioOf(match) ==
    LET hours == NumberOfDigits(match.hours)
        minutes == NumberOfDigits(match.minutes)
        seconds == Num(NumberOfDigits(match.whole \o match.fraction),
                       Pow10(Len(match.fraction)))
        totalSeconds == Add(Whole(hours * 3600 + minutes * 60), seconds)
    IN  MathMax(Whole(0), MathMin(Div(totalSeconds, Whole(3600)), Whole(1)))

\* String(buffer).split(/\r?\n/): pieces are the pieces cut off so far, piece
\* the characters since the last line break.
RECURSIVE split(_, _, _, _)
split(text, at, pieces, piece) ==
    IF at > Len(text) THEN Append(pieces, piece)
    ELSE IF text[at] = "\n"
         THEN split(text, at + 1,
                    Append(pieces,
                           IF Len(piece) > 0 /\ piece[Len(piece)] = "\r"
                           THEN SubSeq(piece, 1, Len(piece) - 1) ELSE piece),
                    <<>>)
         ELSE split(text, at + 1, pieces, Append(piece, text[at]))

\* .filter(Boolean): the empty strings are dropped
linesOf(buffer) == SelectSeq(split(buffer, 1, <<>>, <<>>), LAMBDA line : Len(line) > 0)

\* The for loop of the data listener over lines from position index: the
\* tail and the ratios handed to onProgress so far.
RECURSIVE handleLines(_, _, _, _)
handleLines(lines, index, tail, ratios) ==
    IF index > Len(lines) THEN [tail |-> tail, ratios |-> ratios]
    ELSE LET line == lines[index]
             match == exec(line, 1)
         IN  handleLines(lines, index + 1, pushTail(tail, line),
                         IF match.matched THEN Append(ratios, ratioOf(match)) ELSE ratios)

\* The data listener for one 'data' event: tail is stderrTail before it; no
\* text is kept from one event to the next.
onStderrData(tail, buffer) == handleLines(linesOf(buffer), 1, tail, <<>>)

\* How an event of the child settles runRender's promise.
settlementRejectingOnStderr(event, code) ==
    IF event = "error" \/ event = "data" THEN "reject"
    ELSE IF event = "close" THEN (IF code = 0 THEN "resolve" ELSE "reject")
    ELSE "pending"

\* The close listener resolving on code 0 and doing nothing otherwise
settlementOnSuccessOnly(event, code) ==
    IF event = "error" THEN "reject"
    ELSE IF event = "close" THEN (IF code = 0 THEN "resolve" ELSE "pending")
    ELSE "pending"

settlement(event, code) ==
    IF event = "error" THEN "reject"
    ELSE IF event = "close" THEN (IF code = 0 THEN "resolve" ELSE "reject")
    ELSE "pending"

\* new Error(`FFmpeg exited with code ${code}.${details}`)
exitError(code, tail) == [kind |-> "exit", code |-> code, details |-> tail]

\* the error of a transcoder that could not be started
spawnError == [kind |-> "spawn"]

\* new Error("Render completed but output was not created.")
notCreatedError == [kind |-> "not-created"]

\* The error of unlinkSync
unlinkError == [kind |-> "unlink"]

\* unlinkSync(resolvedOutput) without the existsSync test: ENOENT without a file
removeOutputUnguarded(exists) ==
    [exists |-> FALSE, unlinked |-> exists, threw |-> ~exists]

\* Lines 246-248: is there a file afterwards, was one removed, did it throw
removeOutput(exists) ==
    IF exists
    THEN [exists |-> FALSE, unlinked |-> TRUE, threw |-> FALSE]
    ELSE [exists |-> exists, unlinked |-> FALSE, threw |-> FALSE]

\* The message with the encoder's name left out
failedProgressUnnamed(encoder) ==
    [ratio |-> Whole(0), rawLine |-> <<"Encoder failed, trying next available encoder...">>]

\* Lines 270-274: the render:progress message of the catch block
failedProgress(encoder) ==
    [ratio |-> Whole(0),
     rawLine |-> <<"Encoder ", encoder, " failed, trying next available encoder...">>]

\* The try block after the await: the attempt counts as a success.
attemptSucceededWithoutOutputCheck(how, exists) == how = "resolve"

attemptSucceeded(how, exists) == how = "resolve" /\ exists

\* lastError = error
caughtErrorKeepingFirst(previous, error) == IF previous = Undefined THEN error ELSE previous

caughtError(previous, error) == error

\* Control flow of the for loop after attempt index of count: return from the
\* try block, go on with the next encoder, or fall out of the loop and throw.
nextStepWithoutReturn(succeeded, index, count) ==
    IF index < count THEN "retry" ELSE IF succeeded THEN "return" ELSE "throw"

nextStepFailingFast(succeeded, index, count) ==
    IF succeeded THEN "return" ELSE "throw"

nextStep(succeeded, index, count) ==
    IF succeeded THEN "return" ELSE IF index < count THEN "retry" ELSE "throw"

Init ==
    /\ EncoderIdle /\ ZoomIdle /\ RestIdle
    /\ pc = "getAvailableEncoders"
    /\ encoderHint \in EncoderHints
    /\ fileExists \in BOOLEAN
    /\ encoders = <<>> /\ preferredEncoder = None /\ encoderAttempts = <<>>
    /\ attempt = 0 /\ children = <<>> /\ stderrTail = <<>>
    /\ lastError = Undefined /\ lastEvent = Undefined
    /\ outcome = [status |-> "pending"]
    /\ journal = <<>>

\* Lines 204-206 once the probe has answered with `available`.
Negotiate(available) ==
    /\ encoders' = available
    /\ preferredEncoder' = pickEncoder(Range(available), encoderHint)
    /\ encoderAttempts' = buildEncoderAttempts(Range(available), preferredEncoder')
    /\ pc' = "showSaveDialog"
    /\ UNCHANGED <<encoderHint, fileExists, attempt, children, stderrTail, lastError,
                   lastEvent, outcome, journal, encoderVars, zoomVars, restVars>>

ProbeClose ==
    /\ pc = "getAvailableEncoders"
    /\ \E stdoutNames \in SUBSET EncoderChoice : Negotiate(availableEncoders(stdoutNames))

ProbeError ==
    /\ pc = "getAvailableEncoders"
    /\ Negotiate(<<"libx264", "mpeg4">>)

\* Lines 208-227: the output path is given or chosen, or the dialog is cancelled.
ResolveOutput ==
    /\ pc = "showSaveDialog"
    /\ \E canceled \in BOOLEAN :
          IF canceled
          THEN /\ pc' = "done"
               /\ outcome' = [status |-> "fulfilled", canceled |-> TRUE]
          ELSE /\ pc' = "ensureDirectory"
               /\ UNCHANGED outcome
    /\ UNCHANGED <<encoderHint, fileExists, encoders, preferredEncoder, encoderAttempts,
                   attempt, children, stderrTail, lastError, lastEvent, journal,
                   encoderVars, zoomVars, restVars>>

\* One pass of the loop body up to the await (lines 245-255, runRender 172-175):
\* the output file is removed if there, the plan is made for encoder index and
\* the transcoder is spawned; kids are the children before the spawn.
TryEncoder(index, kids, log) ==
    LET removed == removeOutput(fileExists)
        removal == IF removed.unlinked THEN <<[op |-> "unlinkSync"]>> ELSE <<>>
    IN  IF removed.threw
        THEN \* the exception of unlinkSync leaves the function: the loop body is
             \* not inside the try block
             /\ outcome' = [status |-> "rejected", attempted |-> <<>>, message |-> unlinkError]
             /\ pc' = "done"
             /\ children' = kids
             /\ journal' = log
             /\ UNCHANGED <<fileExists, attempt, stderrTail>>
        ELSE \E started \in BOOLEAN :
             /\ fileExists' = removed.exists
             /\ attempt' = index
             /\ children' = Append(kids, [encoder |-> encoderAttempts[index],
                                          status |-> IF started THEN "alive" ELSE "spawn-failed",
                                          settled |-> FALSE])
             /\ journal' = log \o removal \o
                               <<[op |-> "spawn", child |-> index,
                                  outputExists |-> removed.exists]>>
             /\ stderrTail' = <<>>
             /\ pc' = "runRender"
             /\ UNCHANGED outcome

\* Line 229 has resolved: the loop starts.
BeginAttempts ==
    /\ pc = "ensureDirectory"
    /\ TryEncoder(1, children, journal)
    /\ UNCHANGED <<encoderHint, encoders, preferredEncoder, encoderAttempts, lastError,
                   lastEvent, encoderVars, zoomVars, restVars>>

\* Lines 255-282 once the awaited runRender promise has settled (how), with
\* error its rejection; kids and tail are children and stderrTail after the
\* event that settled it.
AfterRender(how, error, kids, tail, log) ==
    LET succeeded == attemptSucceeded(how, fileExists)
        thrown    == IF how = "resolve" THEN notCreatedError ELSE error
        caught    == IF succeeded THEN lastError ELSE caughtError(lastError, thrown)
        step      == nextStep(succeeded, attempt, Len(encoderAttempts))
        \* the catch block's message (lines 270-274)
        logged    == IF succeeded THEN log
                     ELSE Append(log, [op |-> "send",
                                       message |-> failedProgress(encoderAttempts[attempt])])
    IN  /\ lastError' = caught
        /\ IF step = "retry"
           THEN TryEncoder(attempt + 1, kids, logged)
           ELSE /\ journal' = logged
                /\ outcome' = IF step = "return"
                              THEN [status |-> "fulfilled", canceled |-> FALSE,
                                    encoder |-> encoderAttempts[attempt]]
                              ELSE [status |-> "rejected", attempted |-> encoderAttempts,
                                    message |-> caught]
                /\ pc' = "done"
                /\ children' = kids
                /\ stderrTail' = tail
                /\ UNCHANGED <<attempt, fileExists>>

\* An event of child k reaches runRender's listeners.
Deliver(k, event, code, kids, tail) ==
    LET how == settlement(event, code)
        log == IF event = "data" THEN journal
               ELSE Append(journal, [op |-> event, child |-> k])
    IN  IF how = "pending" \/ children[k].settled \/ pc # "runRender"
        THEN /\ children' = kids
             /\ stderrTail' = tail
             /\ journal' = log
             /\ UNCHANGED <<pc, attempt, fileExists, lastError, outcome>>
        ELSE AfterRender(how,
                         IF event = "error" THEN spawnError ELSE exitError(code, tail),
                         [kids EXCEPT ![k].settled = TRUE], tail, log)

\* The transcoder of the running attempt prints a line on stderr.
StderrData ==
    /\ \E k \in 1..Len(children), line \in StderrLines :
          /\ children[k].status = "alive"
          /\ k = attempt
          /\ Len(stderrTail) < MaxStderrLines
          /\ Deliver(k, "data", 0, children, pushTail(stderrTail, line))
    /\ UNCHANGED <<encoderHint, encoders, preferredEncoder, encoderAttempts, lastEvent,
                   encoderVars, zoomVars, restVars>>

\* A running transcoder creates the output file.
TranscoderWritesOutput ==
    /\ \E k \in 1..Len(children) : children[k].status = "alive"
    /\ ~fileExists
    /\ fileExists' = TRUE
    /\ UNCHANGED <<pc, encoderHint, encoders, preferredEncoder, encoderAttempts, attempt,
                   children, stderrTail, lastError, lastEvent, outcome, journal,
                   encoderVars, zoomVars, restVars>>

\* A transcoder process has ended and its 'close' event is delivered.
ChildClose ==
    /\ \E k \in 1..Len(children), code \in ExitCodes :
          /\ children[k].status = "alive"
          /\ lastEvent' = [child |-> k, event |-> "close", code |-> code,
                           outputExisted |-> fileExists]
          /\ Deliver(k, "close", code, [children EXCEPT ![k].status = "ended"], stderrTail)
    /\ UNCHANGED <<encoderHint, encoders, preferredEncoder, encoderAttempts,
                   encoderVars, zoomVars, restVars>>

\* The transcoder could not be started: the child emits 'error'.
ChildError ==
    /\ \E k \in 1..Len(children) :
          /\ children[k].status = "spawn-failed"
          /\ lastEvent' = [child |-> k, event |-> "error", code |-> -1,
                           outputExisted |-> fileExists]
          /\ Deliver(k, "error", -1, [children EXCEPT ![k].status = "ended"], stderrTail)
    /\ UNCHANGED <<encoderHint, encoders, preferredEncoder, encoderAttempts,
                   encoderVars, zoomVars, restVars>>

Next ==
    \/ ProbeClose \/ ProbeError \/ ResolveOutput \/ BeginAttempts
    \/ StderrData \/ TranscoderWritesOutput \/ ChildClose \/ ChildError

Spec == Init /\ [][Next]_vars

\* Every transcoder process that was spawned ends in time: it closes, or it
\* reports that it could not be started.
SpecProcessesEnd == Spec /\ WF_vars(ChildClose) /\ WF_vars(ChildError)

(***************************************************************************)
(* SpecAutoZoom: buildAutoZooms on an event list, and on the same list in  *)
(* another order                                                           *)
(***************************************************************************)
MaxEvents == 3

\* Recorded events: atMs is Date.now() - recordStartTime, a whole number.
RecordedEvents ==
    {[kind |-> "click", atMs |-> 1000, xNorm |-> <<1, 4>>, yNorm |-> <<1, 4>>],
     [kind |-> "click", atMs |-> 1000, xNorm |-> <<3, 4>>, yNorm |-> <<3, 4>>],
     [kind |-> "typing", atMs |-> 1000, xNorm |-> Missing, yNorm |-> Missing],
     [kind |-> "cursor", atMs |-> 1000, xNorm |-> <<1, 4>>, yNorm |-> <<1, 4>>],
     [kind |-> "focus", atMs |-> 0, xNorm |-> <<1, 2>>, yNorm |-> <<1, 2>>],
     [kind |-> "click", atMs |-> 2779, xNorm |-> <<1, 4>>, yNorm |-> <<1, 4>>],
     [kind |-> "click", atMs |-> 2780, xNorm |-> <<1, 4>>, yNorm |-> <<1, 4>>],
     [kind |-> "click", atMs |-> 2900, xNorm |-> <<1, 4>>, yNorm |-> <<1, 4>>],
     [kind |-> "click", atMs |-> 2901, xNorm |-> <<1, 4>>, yNorm |-> <<1, 4>>],
     [kind |-> "click", atMs |-> 5000, xNorm |-> <<1, 4>>, yNorm |-> <<1, 4>>]}

\* payload.durationMs / project.meta.durationMs
Durations == {Whole(3000), Whole(100000)}

\* The options the callers pass: the three include flags.
CallerOptions ==
    {[includeClicks |-> TRUE, includeTyping |-> TRUE, includeFocus |-> TRUE],
     [includeClicks |-> TRUE, includeTyping |-> FALSE, includeFocus |-> TRUE]}

InitAutoZoom ==
    /\ OutsideAutoZoomIdle
    /\ azEvents \in UNION {[1..n -> RecordedEvents] : n \in 0..MaxEvents}
    /\ azDurationMs \in Durations
    /\ azOptions \in CallerOptions
    /\ azCalled = {} /\ azZooms = <<>> /\ azShuffled = <<>>

CallBuildAutoZooms ==
    /\ "buildAutoZooms" \notin azCalled
    /\ azCalled' = azCalled \cup {"buildAutoZooms"}
    /\ azZooms' = buildAutoZooms(azEvents, azDurationMs, azOptions)
    /\ UNCHANGED <<azEvents, azDurationMs, azOptions, azShuffled, outsideAutoZoom>>

\* The same call with the events handed over in another order.
CallBuildAutoZoomsShuffled ==
    /\ "buildAutoZooms" \in azCalled /\ "shuffled" \notin azCalled
    /\ azCalled' = azCalled \cup {"shuffled"}
    /\ \E order \in Permutations(1..Len(azEvents)) :
          azShuffled' = buildAutoZooms([i \in 1..Len(azEvents) |-> azEvents[order[i]]],
                                       azDurationMs, azOptions)
    /\ UNCHANGED <<azEvents, azDurationMs, azOptions, azZooms, outsideAutoZoom>>

NextAutoZoom == CallBuildAutoZooms \/ CallBuildAutoZoomsShuffled

SpecAutoZoom == InitAutoZoom /\ [][NextAutoZoom]_vars

(***************************************************************************)
(* SpecTimeline: a recording becomes a project and its zoom segments are   *)
(* edited in the studio                                                    *)
(***************************************************************************)
MaxEdits == 3

\* The event logs of a recording; the click at 5000 is recorded after the
\* elapsed time the timer last showed.
EventLogs ==
    {<<>>,
     <<[kind |-> "click", atMs |-> 1000, xNorm |-> <<1, 4>>, yNorm |-> <<1, 4>>]>>,
     <<[kind |-> "click", atMs |-> 5000, xNorm |-> <<1, 4>>, yNorm |-> <<1, 4>>]>>}

\* video.currentTime * 1000 while playing, or a position clicked on the track
PlayheadTimes == {Whole(0), <<5002, 5>>, Whole(3050)}

\* toMs(clientX) = ratio * durationMs with 0 <= ratio <= 1
DragRatios == {Whole(0), <<1, 3>>, Whole(1)}

InitTimeline ==
    /\ OutsideTimelineIdle
    /\ projectStage = "recorded"
    /\ projectEvents \in EventLogs
    /\ projectDurationMs = Whole(3000)
    /\ projectZooms = <<>>
    /\ currentMs = Whole(0)
    /\ edits = 0
    /\ lastEdit = None

\* createRecordingProject: the zooms are built if the settings say so.
CreateRecording ==
    /\ projectStage = "recorded"
    /\ projectStage' = "open"
    /\ \E createZoomsAutomatically \in BOOLEAN :
          projectZooms' =
              IF createZoomsAutomatically
              THEN buildAutoZooms(projectEvents, projectDurationMs,
                                  [includeClicks |-> TRUE, includeTyping |-> TRUE,
                                   includeFocus |-> TRUE])
              ELSE <<>>
    /\ projectDurationMs' = metaDurationMs(projectDurationMs)
    /\ lastEdit' = "createRecording"
    /\ UNCHANGED <<projectEvents, currentMs, edits, outsideTimeline>>

\* onTimeUpdate / onSeek
SetCurrentMs ==
    /\ projectStage = "open"
    /\ \E ms \in PlayheadTimes : currentMs' = ms
    /\ currentMs' # currentMs
    /\ UNCHANGED <<projectStage, projectEvents, projectDurationMs, projectZooms, edits,
                   lastEdit, outsideTimeline>>

Edit(name, zs) ==
    /\ projectStage = "open" /\ edits < MaxEdits
    /\ edits' = edits + 1
    /\ lastEdit' = name
    /\ projectZooms' = zs
    /\ UNCHANGED <<projectStage, projectEvents, projectDurationMs, currentMs,
                   outsideTimeline>>

AddManualZoom == Edit("addManualZoom", Append(projectZooms, createManualZoom(currentMs)))

AddInstantZoom == Edit("addInstantZoom", Append(projectZooms, createInstantZoom(currentMs)))

RegenerateAutoZoom ==
    Edit("regenerateAutoZoom",
         buildAutoZooms(projectEvents, projectDurationMs,
                        [includeClicks |-> TRUE, includeTyping |-> TRUE,
                         includeFocus |-> TRUE]))

DragBoundary ==
    \E id \in 1..Len(projectZooms), edge \in {"start", "end"}, ratio \in DragRatios :
        Edit(IF edge = "start" THEN "dragStart" ELSE "dragEnd",
             moveZoomBoundary(projectZooms, id, edge, Mul(ratio, projectDurationMs),
                              projectDurationMs))

NextTimeline ==
    \/ CreateRecording \/ SetCurrentMs
    \/ AddManualZoom \/ AddInstantZoom \/ RegenerateAutoZoom \/ DragBoundary

SpecTimeline == InitTimeline /\ [][NextTimeline]_vars

(***************************************************************************)
(* SpecTransform: computeViewTransform on every input                      *)
(***************************************************************************)
\* zoom.level as stored: the schema keeps it in [1, 4], the function clamps
\* whatever it is given.
TransformLevels == {<<1, 2>>, Whole(1), <<9, 5>>, <<5, 2>>, Whole(4), Whole(5)}

TransformTargets ==
    {Undefined} \cup
    {[xNorm |-> x, yNorm |-> y] : x \in {Whole(0), <<33333, 100000>>, Whole(1)},
                                   y \in {Whole(0), <<3, 4>>, Whole(1)}}

FrameWidths == {Whole(1), Whole(641), Whole(1920)}

FrameHeights == {Whole(1), Whole(480), Whole(1080)}

InitTransform ==
    /\ OutsideTransformIdle
    /\ vtZoom \in {Undefined} \cup
                  {[level |-> lv, manualTarget |-> tg] :
                      lv \in TransformLevels, tg \in TransformTargets}
    /\ vtFrameWidth \in FrameWidths
    /\ vtFrameHeight \in FrameHeights
    /\ vtTransform = Undefined

CallComputeViewTransform ==
    /\ vtTransform = Undefined
    /\ vtTransform' = computeViewTransform(vtZoom, vtFrameWidth, vtFrameHeight)
    /\ UNCHANGED <<vtZoom, vtFrameWidth, vtFrameHeight, outsideTransform>>

NextTransform == CallComputeViewTransform

SpecTransform == InitTransform /\ [][NextTransform]_vars

(***************************************************************************)
(* SpecStderr: the transcoder's stderr reaches runRender in chunks, attempt *)
(* after attempt                                                           *)
(***************************************************************************)
MaxChunks == 3

MaxAttempts == 2

\* What a transcoder prints; the time= stamps of a stream do not decrease.
\* "time=0:0:12.33\ntime=0:0:12.34\n"
StreamTwoStamps ==
    <<"t", "i", "m", "e", "=", "0", ":", "0", ":", "1", "2", ".", "3", "3", "\n",
      "t", "i", "m", "e", "=", "0", ":", "0", ":", "1", "2", ".", "3", "4", "\n">>

\* "q\r\ntime=1:0:0.5\r\n": a stamp past the hour
StreamPastTheHour ==
    <<"q", "\r", "\n", "t", "i", "m", "e", "=", "1", ":", "0", ":", "0", ".", "5", "\r", "\n">>

\* "q\n\nx time=0:9:0.0 y\n"
StreamWithText ==
    <<"q", "\n", "\n", "x", " ", "t", "i", "m", "e", "=", "0", ":", "9", ":", "0", ".", "0",
      " ", "y", "\n">>

StderrStreams == {StreamTwoStamps, StreamPastTheHour, StreamWithText}

InitStderr ==
    /\ OutsideStderrIdle
    /\ rrStream \in StderrStreams
    /\ rrPending = rrStream
    /\ rrChunks = 0
    /\ rrTail = <<>>
    /\ rrAttempt = 1
    /\ rrSent = <<>>
    /\ rrPhase = "running"

\* child.stderr emits 'data' with the next size characters.
StderrChunk ==
    /\ rrPhase = "running" /\ rrChunks < MaxChunks
    /\ \E size \in 1..Len(rrPending) :
          LET handled == onStderrData(rrTail, SubSeq(rrPending, 1, size))
          IN  /\ rrPending' = SubSeq(rrPending, size + 1, Len(rrPending))
              /\ rrTail' = handled.tail
              /\ rrSent' = rrSent \o [i \in 1..Len(handled.ratios) |->
                                         [attempt |-> rrAttempt, kind |-> "progress",
                                          ratio |-> handled.ratios[i]]]
    /\ rrChunks' = rrChunks + 1
    /\ UNCHANGED <<rrStream, rrAttempt, rrPhase, outsideStderr>>

\* The child closes with code 0 and the output file is there: the export returns.
RenderSucceeds ==
    /\ rrPhase = "running" /\ rrPending = <<>>
    /\ rrPhase' = "returned"
    /\ UNCHANGED <<rrStream, rrPending, rrChunks, rrTail, rrAttempt, rrSent, outsideStderr>>

\* The child closes with a nonzero code: the catch block reports the failure
\* and the loop goes on with the next encoder, or the export throws.
RenderFails ==
    /\ rrPhase = "running" /\ rrPending = <<>>
    /\ rrSent' = Append(rrSent, [attempt |-> rrAttempt, kind |-> "failed", ratio |-> Whole(0)])
    /\ IF rrAttempt < MaxAttempts
       THEN /\ rrAttempt' = rrAttempt + 1
            /\ rrPending' = rrStream
            /\ rrChunks' = 0
            /\ rrTail' = <<>>
            /\ UNCHANGED rrPhase
       ELSE /\ rrPhase' = "thrown"
            /\ UNCHANGED <<rrPending, rrChunks, rrTail, rrAttempt>>
    /\ UNCHANGED <<rrStream, outsideStderr>>

NextStderr == StderrChunk \/ RenderSucceeds \/ RenderFails

SpecStderr == InitStderr /\ [][NextStderr]_vars

(***************************************************************************)
(* SpecBackground: the export from ensureDirectory to the first attempt    *)
(***************************************************************************)
BackgroundTypes == {"wallpaper", "gradient", "color", "image", "none"}

RawPaths ==
    {[given |-> FALSE, blank |-> TRUE, fileUrl |-> FALSE, parsable |-> FALSE, absolute |-> FALSE],
     [given |-> TRUE, blank |-> TRUE, fileUrl |-> FALSE, parsable |-> FALSE, absolute |-> FALSE],
     [given |-> TRUE, blank |-> FALSE, fileUrl |-> FALSE, parsable |-> FALSE, absolute |-> FALSE],
     [given |-> TRUE, blank |-> FALSE, fileUrl |-> FALSE, parsable |-> FALSE, absolute |-> TRUE],
     [given |-> TRUE, blank |-> FALSE, fileUrl |-> TRUE, parsable |-> TRUE, absolute |-> TRUE],
     [given |-> TRUE, blank |-> FALSE, fileUrl |-> TRUE, parsable |-> FALSE, absolute |-> FALSE]}

InitBackground ==
    /\ OutsideBackgroundIdle
    /\ bgBackground \in [type : BackgroundTypes, imagePath : RawPaths]
    /\ bgImageExists \in BOOLEAN
    /\ bgWindow \in BOOLEAN
    /\ bgPc = "ensureDirectory"
    /\ bgSent = <<>>
    /\ bgPlan = Undefined

\* Lines 229-255 once ensureDirectory has resolved: the image path is
\* resolved and looked up, the warning is sent, the plan of the first
\* encoder is made and runRender spawns the transcoder.
StartExport ==
    /\ bgPc = "ensureDirectory"
    /\ bgSent' = IF warnsAboutBackground(bgBackground, bgImageExists) /\ bgWindow
                 THEN Append(bgSent, [ratio |-> Whole(0), rawLine |-> "Background image not found"])
                 ELSE bgSent
    /\ bgPlan' = [imageBackgroundEnabled |->
                     imageBackgroundEnabled(bgBackground,
                         IF hasBackgroundImage(bgBackground, bgImageExists)
                         THEN resolvedBackgroundImagePath(bgBackground)
                         ELSE NoPath)]
    /\ bgPc' = "runRender"
    /\ UNCHANGED <<bgBackground, bgImageExists, bgWindow, outsideBackground>>

NextBackground == StartExport

SpecBackground == InitBackground /\ [][NextBackground]_vars

(***************************************************************************)
(* SpecMargin: the margin and interior size for every export size          *)
(***************************************************************************)
ExportWidths == {1, 2, 3, 101, 1920}

ExportHeights == {1, 2, 480, 1080}

\* padding in [0, 240] and inset in [0, 80], fractions included
Paddings == {Whole(0), <<1, 2>>, Whole(64), Whole(240)}

Insets == {Whole(0), <<12, 5>>, Whole(80)}

InitMargin ==
    /\ OutsideMarginIdle
    /\ mgBackground \in [padding : Paddings, inset : Insets]
    /\ mgExport \in [width : ExportWidths, height : ExportHeights]
    /\ mgScale = Undefined

CallCreateForegroundFilter ==
    /\ mgScale = Undefined
    /\ mgScale' = baseScale(mgBackground, mgExport)
    /\ UNCHANGED <<mgBackground, mgExport, outsideMargin>>

NextMargin == CallCreateForegroundFilter

SpecMargin == InitMargin /\ [][NextMargin]_vars

(***************************************************************************)
(* SpecAutosave: the studio's project state, its save timer and the        *)
(* project:save requests (StudioPage, project-service)                     *)
(***************************************************************************)
MaxProjectEdits == 2

MaxSaves == 3

\* upsertProject with a recipe that makes edit e: nothing without a project
upsertProject(current, e) ==
    IF current = Undefined THEN current ELSE [current EXCEPT !.edits = @ \cup {e}]

\* The effect on [project] (lines 158-164): its cleanup clears the timer
\* set before, and a timer is set that will send this project.
autosaveEffect(project) == IF project = Undefined THEN Undefined ELSE project

\* saveProject: the project with a new updatedAt, written and returned
saveProject(project, now) == [project EXCEPT !.updatedAt = now]

\* The project has been opened (lines 122-127): setProject ran the effect.
InitAutosave ==
    /\ OutsideAutosaveIdle
    /\ asProject = [edits |-> {}, updatedAt |-> 0]
    /\ asTimer = autosaveEffect(asProject)
    /\ asInFlight = <<>>
    /\ asDisk = asProject
    /\ asEdits = 0
    /\ asSaves = 0

\* The user changes the project: upsertProject, then the effect.
UserEdit ==
    /\ asEdits < MaxProjectEdits
    /\ asEdits' = asEdits + 1
    /\ asProject' = upsertProject(asProject, asEdits + 1)
    /\ asTimer' = autosaveEffect(asProject')
    /\ UNCHANGED <<asInFlight, asDisk, asSaves, outsideAutosave>>

\* The timer fires after 1000 ms: saveMutation.mutateAsync(project) with the
\* project of the render that set it.
SaveTimerFires ==
    /\ asTimer # Undefined /\ asSaves < MaxSaves
    /\ asInFlight' = Append(asInFlight, asTimer)
    /\ asTimer' = Undefined
    /\ asSaves' = asSaves + 1
    /\ UNCHANGED <<asProject, asDisk, asEdits, outsideAutosave>>

\* The oldest request is answered: saveProject has written the file, and
\* onSuccess sets the project to what it returned, which runs the effect.
SaveAnswered ==
    /\ asInFlight # <<>>
    /\ LET saved == saveProject(Head(asInFlight), asSaves - Len(asInFlight) + 1)
       IN  /\ asDisk' = saved
           /\ asProject' = saved
           /\ asTimer' = autosaveEffect(saved)
    /\ asInFlight' = Tail(asInFlight)
    /\ UNCHANGED <<asEdits, asSaves, outsideAutosave>>

NextAutosave == UserEdit \/ SaveTimerFires \/ SaveAnswered

SpecAutosave == InitAutosave /\ [][NextAutosave]_vars

(***************************************************************************)
(* SpecRecording: the record page, from Start to the created project       *)
(* (SettingsPage.tsx, RecordPage); the page is followed while it is shown  *)
(***************************************************************************)
MaxStarts == 2

CountdownFrom == 3

\* isBusy
isBusy(state) == state \in {"countdown", "recording", "paused", "saving"}

\* MediaRecorder.stop(): an active recorder becomes inactive and its 'stop'
\* event is queued; an inactive one is left as it is.
stop(recorder) ==
    IF recorder.state = "inactive" THEN recorder
    ELSE [recorder EXCEPT !.state = "inactive", !.stopQueued = TRUE]

InitRecording ==
    /\ OutsideRecordingIdle
    /\ recState = "idle" /\ recIntervals = {} /\ recCaptures = {} /\ recRecorders = <<>>
    /\ recRef = 0 /\ recStarts = 0 /\ recCancelledCountdown = FALSE
    /\ recPage = "record"

\* The Start button (enabled unless isBusy): startRecording sets the interval.
StartRecording ==
    /\ recPage = "record" /\ ~isBusy(recState) /\ recStarts < MaxStarts
    /\ recState' = "countdown"
    /\ recStarts' = recStarts + 1
    /\ recIntervals' = recIntervals \cup {[id |-> recStarts + 1, current |-> CountdownFrom]}
    /\ recCancelledCountdown' = FALSE
    /\ UNCHANGED <<recCaptures, recRecorders, recRef, recPage, outsideRecording>>

\* The interval's callback (lines 432-444): at 0 the interval is cleared and
\* beginActualRecording runs up to its await of the capture stream.
CountdownTick ==
    /\ recPage = "record"
    /\ \E interval \in recIntervals :
          IF interval.current - 1 <= 0
          THEN /\ recIntervals' = recIntervals \ {interval}
               /\ recCaptures' = recCaptures \cup {interval.id}
          ELSE /\ recIntervals' = (recIntervals \ {interval})
                                      \cup {[interval EXCEPT !.current = @ - 1]}
               /\ UNCHANGED recCaptures
    /\ UNCHANGED <<recState, recRecorders, recRef, recStarts, recCancelledCountdown,
                   recPage, outsideRecording>>

\* The capture stream has arrived (lines 370-424): the recorder is created,
\* kept in mediaRecorderRef and started.
BeginActualRecording ==
    /\ recPage = "record"
    /\ \E id \in recCaptures :
          /\ recCaptures' = recCaptures \ {id}
          /\ recRecorders' = Append(recRecorders,
                                    [state |-> "recording", stopQueued |-> FALSE,
                                     fate |-> "capturing", cancelled |-> FALSE])
          /\ recRef' = Len(recRecorders) + 1
          /\ recState' = "recording"
    /\ UNCHANGED <<recIntervals, recStarts, recCancelledCountdown, recPage, outsideRecording>>

\* The capture stream could not be had: the catch block of startRecording.
BeginActualRecordingFails ==
    /\ recPage = "record"
    /\ \E id \in recCaptures : recCaptures' = recCaptures \ {id}
    /\ recState' = "idle"
    /\ UNCHANGED <<recIntervals, recRecorders, recRef, recStarts, recCancelledCountdown,
                   recPage, outsideRecording>>

\* The Pause/Resume button (enabled when recording or paused); pause() and
\* resume() of an inactive recorder throw and leave everything as it is.
PauseResumeRecording ==
    /\ recPage = "record" /\ recState \in {"recording", "paused"}
    /\ recRef # 0 /\ recRecorders[recRef].state # "inactive"
    /\ LET next == IF recState = "recording" THEN "paused" ELSE "recording"
       IN  /\ recRecorders' = [recRecorders EXCEPT ![recRef].state = next]
           /\ recState' = next
    /\ UNCHANGED <<recIntervals, recCaptures, recRef, recStarts, recCancelledCountdown,
                   recPage, outsideRecording>>

\* The Stop button (enabled when recording or paused)
StopRecording ==
    /\ recPage = "record" /\ recState \in {"recording", "paused"}
    /\ recRef # 0 /\ recRecorders[recRef].state # "inactive"
    /\ recRecorders' = [recRecorders EXCEPT ![recRef] = stop(@)]
    /\ UNCHANGED <<recState, recIntervals, recCaptures, recRef, recStarts,
                   recCancelledCountdown, recPage, outsideRecording>>

\* The Cancel button (enabled when busy and not saving): cancelRecording
CancelRecording ==
    /\ recPage = "record" /\ isBusy(recState) /\ recState # "saving"
    /\ recRecorders' = IF recRef = 0 THEN recRecorders
                       ELSE [recRecorders EXCEPT ![recRef] = [stop(@) EXCEPT !.cancelled = TRUE]]
    /\ recRef' = 0
    /\ recState' = "idle"
    /\ recCancelledCountdown' = IF recState = "countdown" THEN TRUE ELSE recCancelledCountdown
    /\ UNCHANGED <<recIntervals, recCaptures, recStarts, recPage, outsideRecording>>

\* A recorder's 'stop' event: recorder.onstop up to its await
RecorderOnStop ==
    /\ recPage = "record"
    /\ \E r \in 1..Len(recRecorders) :
          /\ recRecorders[r].stopQueued
          /\ recRecorders' = [recRecorders EXCEPT ![r].stopQueued = FALSE, ![r].fate = "saving"]
    /\ recState' = "saving"
    /\ UNCHANGED <<recIntervals, recCaptures, recRef, recStarts, recCancelledCountdown,
                   recPage, outsideRecording>>

\* project:create-recording has created the project: onSuccess
CreateRecordingSucceeds ==
    /\ recPage = "record"
    /\ \E r \in 1..Len(recRecorders) :
          /\ recRecorders[r].fate = "saving"
          /\ recRecorders' = [recRecorders EXCEPT ![r].fate = "saved"]
    /\ recState' = "idle"
    /\ recPage' = "studio"
    /\ UNCHANGED <<recIntervals, recCaptures, recRef, recStarts, recCancelledCountdown,
                   outsideRecording>>

\* project:create-recording has failed: onError
CreateRecordingFails ==
    /\ recPage = "record"
    /\ \E r \in 1..Len(recRecorders) :
          /\ recRecorders[r].fate = "saving"
          /\ recRecorders' = [recRecorders EXCEPT ![r].fate = "failed"]
    /\ recState' = "idle"
    /\ UNCHANGED <<recIntervals, recCaptures, recRef, recStarts, recCancelledCountdown,
                   recPage, outsideRecording>>

NextRecording ==
    \/ StartRecording \/ CountdownTick \/ BeginActualRecording \/ BeginActualRecordingFails
    \/ PauseResumeRecording \/ StopRecording \/ CancelRecording
    \/ RecorderOnStop \/ CreateRecordingSucceeds \/ CreateRecordingFails

SpecRecording == InitRecording /\ [][NextRecording]_vars

(***************************************************************************)
(* Claims about the zoom expressions (SpecZoom)                            *)
(***************************************************************************)
FrameSecond == Div(atMs, Whole(1000))

TargetOf(segment) ==
    IF segment.manualTarget = Undefined
    THEN [xNorm |-> <<1, 2>>, yNorm |-> <<1, 2>>]
    ELSE segment.manualTarget

First(S) == CHOOSE i \in S : \A j \in S : i <= j

\* Enabled segments with level > 1 whose interval, each bound rounded to a
\* whole millisecond, contains the frame time.
C1_CoveringRounded ==
    {i \in 1..Len(zooms) :
        /\ ~zooms[i].disabled /\ Lt(Whole(1), zooms[i].level)
        /\ Le(toSeconds(zooms[i].startMs), FrameSecond)
        /\ Le(FrameSecond, toSeconds(zooms[i].endMs))}

\* Enabled segments with level > 1 whose [startMs, endMs] contains atMs.
C1_CoveringExact ==
    {i \in 1..Len(zooms) :
        /\ ~zooms[i].disabled /\ Lt(Whole(1), zooms[i].level)
        /\ Le(zooms[i].startMs, atMs) /\ Le(atMs, zooms[i].endMs)}

ExportZoom  == IF frame.dynamicZoom THEN frame.zoom ELSE Whole(1)
ExportCropX == IF frame.dynamicZoom THEN frame.cropX ELSE Whole(0)
ExportCropY == IF frame.dynamicZoom THEN frame.cropY ELSE Whole(0)

\* C7: preview and export agree at every instant: the export's zoom level is
\* the preview's scale, its target is the target of the segment the preview
\* selects, and its crop offset is computeViewTransform's offset scaled by the
\* zoom level.
C7_PreviewExportAgree ==
    (frame # Undefined /\ preview # Undefined) =>
        /\ ExportZoom = preview.transform.scale
        /\ (frame.dynamicZoom /\ preview.activeZoom # Undefined) =>
               /\ frame.xNorm = TargetOf(preview.activeZoom).xNorm
               /\ frame.yNorm = TargetOf(preview.activeZoom).yNorm
        /\ ExportCropX = Mul(preview.transform.scale, preview.transform.xPx)
        /\ ExportCropY = Mul(preview.transform.scale, preview.transform.yPx)

(***************************************************************************)
(* Claims about the encoder negotiator (SpecEncoder)                       *)
(***************************************************************************)
\* The encoder a hint names; auto names none.
HintedEncoder(hint) ==
    CASE hint = "nvenc" -> "h264_nvenc"
      [] hint = "qsv"   -> "h264_qsv"
      [] hint = "amf"   -> "h264_amf"
      [] hint = "mpeg4" -> "mpeg4"
      [] OTHER          -> None

PriorityIndex(encoder) == CHOOSE i \in 1..Len(ENCODER_PRIORITY) : ENCODER_PRIORITY[i] = encoder

HardwareEncoders == {"h264_nvenc", "h264_qsv", "h264_amf"}

\* C8: pickEncoder returns the hinted encoder when it is available, otherwise
\* the first available of h264_nvenc, h264_qsv, h264_amf, otherwise libx264
\* if available, otherwise mpeg4.
C8_PickEncoderRule ==
    "pickEncoder" \in fnCalled =>
        fnPicked =
            IF HintedEncoder(fnHint) \in fnAvailable THEN HintedEncoder(fnHint)
            ELSE IF fnAvailable \cap HardwareEncoders # {}
                 THEN CHOOSE e \in fnAvailable \cap HardwareEncoders :
                         \A f \in fnAvailable \cap HardwareEncoders :
                             PriorityIndex(e) <= PriorityIndex(f)
            ELSE IF "libx264" \in fnAvailable THEN "libx264"
            ELSE "mpeg4"

\* C8 witness: the hint names an encoder that is not available and a
\* hardware encoder further down the priority list was picked.
C8_Witness ==
    /\ "pickEncoder" \in fnCalled
    /\ fnHint = "nvenc" /\ fnAvailable = {"h264_amf", "libx264", "mpeg4"}
    /\ fnPicked = "h264_amf"

\* C9 as amended: pickEncoder with available = [h264_nvenc, libx264] and
\* hint = qsv returns h264_nvenc, the first available hardware encoder.
C9_UnavailableHintPicksNvenc ==
    ("pickEncoder" \in fnCalled /\ fnAvailable = {"h264_nvenc", "libx264"} /\ fnHint = "qsv")
        => fnPicked = "h264_nvenc"

\* C9 witness: pickEncoder has been called with these arguments.
C9_Witness ==
    "pickEncoder" \in fnCalled /\ fnAvailable = {"h264_nvenc", "libx264"} /\ fnHint = "qsv"

\* C9 as stated: pickEncoder with available = [h264_nvenc, libx264] and
\* hint = qsv returns libx264.
C9_Original ==
    ("pickEncoder" \in fnCalled /\ fnAvailable = {"h264_nvenc", "libx264"} /\ fnHint = "qsv")
        => fnPicked = "libx264"

\* C10: buildEncoderAttempts returns a non-empty chain without duplicates:
\* preferred first, then the other available encoders in the order of
\* ENCODER_PRIORITY, then libx264 and mpeg4 where the chain lacks them, so
\* that both are always in it; for available = [h264_qsv] and preferred =
\* h264_nvenc it is h264_nvenc, h264_qsv, libx264, mpeg4.
C10_AttemptChain ==
    "buildEncoderAttempts" \in fnCalled =>
        /\ Len(fnAttempts) >= 1
        /\ \A i, j \in 1..Len(fnAttempts) : fnAttempts[i] = fnAttempts[j] => i = j
        /\ fnAttempts[1] = fnPreferred
        /\ Tail(fnAttempts) =
              SelectSeq(ENCODER_PRIORITY, LAMBDA e : e # fnPreferred /\ e \in fnAvailable)
              \o SelectSeq(<<"libx264", "mpeg4">>,
                           LAMBDA e : e # fnPreferred /\ e \notin fnAvailable)
        /\ {"libx264", "mpeg4"} \subseteq Range(fnAttempts)
        /\ (fnAvailable = {"h264_qsv"} /\ fnPreferred = "h264_nvenc") =>
               fnAttempts = <<"h264_nvenc", "h264_qsv", "libx264", "mpeg4">>

\* C10 witness: the chain for available = [h264_qsv], preferred = h264_nvenc.
C10_Witness ==
    /\ "buildEncoderAttempts" \in fnCalled
    /\ fnAvailable = {"h264_qsv"} /\ fnPreferred = "h264_nvenc"

(***************************************************************************)
(* Claims about the retry state machine (Spec)                             *)
(***************************************************************************)
\* The latest child event is an exit with code 0 that left the output file.
GoodExit ==
    /\ lastEvent # Undefined
    /\ lastEvent.event = "close" /\ lastEvent.code = 0 /\ lastEvent.outputExisted

Succeeded == outcome.status = "fulfilled" /\ ~outcome.canceled

Alive == {k \in 1..Len(children) : children[k].status = "alive"}

\* C2: once an attempt's process has exited with code 0 and the output file
\* exists, the export has succeeded with that attempt's encoder and no
\* further encoder has been spawned.
C2_SucceedsAtOnce ==
    GoodExit =>
        /\ pc = "done"
        /\ outcome = [status |-> "fulfilled", canceled |-> FALSE,
                      encoder |-> encoderAttempts[lastEvent.child]]
        /\ Len(children) = lastEvent.child

\* C2 witness: the third attempt succeeded with a fourth encoder left untried.
C2_Witness ==
    /\ GoodExit /\ lastEvent.child = 3 /\ Len(encoderAttempts) >= 4
    /\ Succeeded /\ Len(children) = 3

\* C3: success is reported only when the latest attempt's process exited with
\* code 0 and the output file existed after it, with that attempt's encoder;
\* after any other end of an attempt no success is reported and the
\* attempt's error is recorded as its failure.
C3_SuccessOnlyWithOutput ==
    /\ Succeeded =>
          /\ GoodExit /\ lastEvent.child = attempt
          /\ outcome.encoder = children[attempt].encoder
          /\ outcome.encoder = encoderAttempts[attempt]
    /\ (lastEvent # Undefined /\ ~GoodExit) =>
          /\ ~Succeeded
          /\ lastError # Undefined
          /\ lastError.kind =
                IF lastEvent.event = "error" THEN "spawn"
                ELSE IF lastEvent.code = 0 THEN "not-created" ELSE "exit"

\* C3 witness: an attempt that exited with code 0 without an output file was
\* counted as failed and a later attempt succeeded.
C3_Witness ==
    /\ Succeeded /\ GoodExit /\ attempt >= 2
    /\ lastError = notCreatedError

\* C4: when every encoder has failed the export fails with one error that
\* lists the whole chain in attempt order and ends with the message of the
\* last attempt's failure.
C4_ExhaustedMessage ==
    outcome.status = "rejected" =>
        /\ outcome.attempted = encoderAttempts
        /\ outcome.attempted = [k \in 1..Len(children) |-> children[k].encoder]
        /\ lastEvent.child = Len(encoderAttempts)
        /\ outcome.message =
              IF lastEvent.event = "error" THEN spawnError
              ELSE IF lastEvent.code = 0 THEN notCreatedError
              ELSE exitError(lastEvent.code, stderrTail)

\* C4 witness: a chain of at least three encoders is exhausted and the last
\* attempt failed by exiting with a nonzero code after printing to stderr.
C4_Witness ==
    /\ outcome.status = "rejected" /\ Len(encoderAttempts) >= 3
    /\ outcome.message.kind = "exit" /\ outcome.message.details # <<>>

C6_OneProcessAtATime ==
    /\ Cardinality(Alive) <= 1
    /\ Len(children) = attempt
    /\ \A k \in 1..Len(children) :
          /\ children[k].encoder = encoderAttempts[k]
          /\ k < Len(children) => children[k].status = "ended" /\ children[k].settled

\* C6 witness: the second attempt's process runs after the first one's ended.
C6_Witness ==
    /\ Len(children) = 2 /\ children[2].status = "alive"
    /\ children[1].status = "ended" /\ lastEvent.event = "close"

(***************************************************************************)
(* Claims about the auto-zoom segmentation (SpecAutoZoom)                  *)
(***************************************************************************)
AutoZoomsBuilt == "buildAutoZooms" \in azCalled

\* Two clicks with every kind included and a duration that clamps nothing,
\* the earlier one at 1000 ms.
C11_TwoClicksFrom1000 ==
    /\ AutoZoomsBuilt
    /\ azOptions.includeClicks /\ azDurationMs = Whole(100000)
    /\ Len(azEvents) = 2
    /\ azEvents[1].kind = "click" /\ azEvents[2].kind = "click"
    /\ 1000 \in {azEvents[1].atMs, azEvents[2].atMs}
    /\ azEvents[1].atMs >= 1000 /\ azEvents[2].atMs >= 1000

C11_SecondAtMs ==
    IF azEvents[1].atMs > azEvents[2].atMs THEN azEvents[1].atMs ELSE azEvents[2].atMs

\* C11 as amended: with the default segmentMs = 1500 and mergeGapMs = 280 and
\* nothing clamped, two same-kind events at 1000 and at up to
\* 1000 + segmentMs + mergeGapMs + 120 = 2900 give one merged segment (from
\* 880 to the second event's atMs + segmentMs), and a second event at 2901 or
\* later gives two segments.
C11_MergeBoundary ==
    C11_TwoClicksFrom1000 =>
        IF C11_SecondAtMs <= 1000 + 1500 + 280 + 120
        THEN /\ Len(azZooms) = 1
             /\ azZooms[1].startMs = Whole(880)
             /\ azZooms[1].endMs = Whole(C11_SecondAtMs + 1500)
        ELSE /\ Len(azZooms) = 2
             /\ azZooms[2].startMs = Whole(C11_SecondAtMs - 120)

\* C11 witness: the events at 2900 and 1000, handed over in this order, were
\* merged into one segment.
C11_Witness ==
    /\ C11_TwoClicksFrom1000
    /\ azEvents[1].atMs = 2900 /\ azEvents[2].atMs = 1000
    /\ Len(azZooms) = 1 /\ azZooms[1].endMs = Whole(4400)

\* C11 as stated: a second event at 1000 + segmentMs + mergeGapMs - 1 = 2779
\* is merged with the one at 1000, and one at 2780 gives two segments.
C11_Original ==
    C11_TwoClicksFrom1000 =>
        /\ C11_SecondAtMs = 2779 => Len(azZooms) = 1
        /\ C11_SecondAtMs = 2780 => Len(azZooms) = 2

\* C12: the segments buildAutoZooms returns do not depend on the order of
\* the events handed over.
C12_PermutationInvariant ==
    {"buildAutoZooms", "shuffled"} \subseteq azCalled => azShuffled = azZooms

\* C13: every returned segment lies inside [0, durationMs].
C13_InsideDuration ==
    AutoZoomsBuilt =>
        \A i \in 1..Len(azZooms) :
            /\ Le(Whole(0), azZooms[i].startMs) /\ Le(azZooms[i].startMs, azDurationMs)
            /\ Le(Whole(0), azZooms[i].endMs) /\ Le(azZooms[i].endMs, azDurationMs)

\* C14: two returned segments of the same sourceSignal are more than
\* mergeGapMs apart, whatever lies between them.
C14_SameSignalApart ==
    AutoZoomsBuilt =>
        \A i, j \in 1..Len(azZooms) :
            (i < j /\ azZooms[i].sourceSignal = azZooms[j].sourceSignal) =>
                Lt(Whole(defaultAutoZoomOptions.mergeGapMs),
                   Sub(azZooms[j].startMs, azZooms[i].endMs))

(***************************************************************************)
(* Claims about the timeline (SpecTimeline)                                *)
(***************************************************************************)
\* C15: every zoom segment of the timeline has startMs <= endMs, whatever
\* operations created and changed the segments.
C15_StartBeforeEnd ==
    \A i \in 1..Len(projectZooms) : Le(projectZooms[i].startMs, projectZooms[i].endMs)

(***************************************************************************)
(* Claims about the view transform (SpecTransform)                         *)
(***************************************************************************)
\* C16: computeViewTransform keeps the viewport inside the frame: the scale is
\* the level clamped to [1, 4], 0 <= xPx <= frameWidth - frameWidth/scale and
\* 0 <= yPx <= frameHeight - frameHeight/scale; without a zoom the result is
\* scale 1 at offset (0, 0).
C16_ViewportInsideFrame ==
    vtTransform # Undefined =>
        IF vtZoom = Undefined
        THEN vtTransform = [scale |-> Whole(1), xPx |-> Whole(0), yPx |-> Whole(0)]
        ELSE /\ vtTransform.scale =
                   IF Lt(vtZoom.level, Whole(1)) THEN Whole(1)
                   ELSE IF Lt(Whole(4), vtZoom.level) THEN Whole(4)
                   ELSE vtZoom.level
             /\ Le(Whole(0), vtTransform.xPx)
             /\ Le(vtTransform.xPx,
                   Sub(vtFrameWidth, Div(vtFrameWidth, vtTransform.scale)))
             /\ Le(Whole(0), vtTransform.yPx)
             /\ Le(vtTransform.yPx,
                   Sub(vtFrameHeight, Div(vtFrameHeight, vtTransform.scale)))

\* C16 witness: a level above 4 with the target in the corner (1, 1): the
\* scale is 4 and the viewport lies against the far edges of the frame.
C16_Witness ==
    /\ vtTransform # Undefined /\ vtZoom # Undefined
    /\ vtZoom.level = Whole(5)
    /\ vtZoom.manualTarget = [xNorm |-> Whole(1), yNorm |-> Whole(1)]
    /\ vtFrameWidth = Whole(1920) /\ vtFrameHeight = Whole(1080)
    /\ vtTransform = [scale |-> Whole(4), xPx |-> Whole(1440), yPx |-> Whole(810)]

(***************************************************************************)
(* Claims about the stderr listener (SpecStderr)                           *)
(***************************************************************************)
\* The ratios handed to onProgress during attempt number k, in order.
RatiosOfAttempt(k) ==
    LET progress == SelectSeq(rrSent, LAMBDA message :
                                 message.attempt = k /\ message.kind = "progress")
    IN  [i \in 1..Len(progress) |-> progress[i].ratio]

\* C17: within an attempt the ratios handed to onProgress lie in [0, 1] and
\* never decrease, however the stream is cut into chunks, and what is
\* reported when the next attempt starts after a failure is the ratio 0.
C17_ProgressMonotonic ==
    /\ \A k \in 1..rrAttempt :
          LET ratios == RatiosOfAttempt(k)
          IN  /\ \A i \in 1..Len(ratios) : Le(Whole(0), ratios[i]) /\ Le(ratios[i], Whole(1))
              /\ \A i, j \in 1..Len(ratios) : i < j => Le(ratios[i], ratios[j])
    /\ \A i \in 1..Len(rrSent) : rrSent[i].kind = "failed" => rrSent[i].ratio = Whole(0)
    /\ (rrAttempt > 1 /\ RatiosOfAttempt(rrAttempt) = <<>>) =>
          rrSent[Len(rrSent)] = [attempt |-> rrAttempt - 1, kind |-> "failed", ratio |-> Whole(0)]

\* C18: once the whole stream of an attempt has arrived, the tail and the
\* ratios handed to onProgress are those of the stream arriving in one chunk.
C18_ChunkingInvisible ==
    (rrPhase = "running" /\ rrPending = <<>>) =>
        /\ rrTail = onStderrData(<<>>, rrStream).tail
        /\ RatiosOfAttempt(rrAttempt) = onStderrData(<<>>, rrStream).ratios

\* The text of the running attempt that has reached the listener so far
Delivered == SubSeq(rrStream, 1, Len(rrStream) - Len(rrPending))

\* The last TailLimit entries of a list of lines
LastLines(lines) ==
    IF Len(lines) <= TailLimit THEN lines
    ELSE SubSeq(lines, Len(lines) - TailLimit + 1, Len(lines))

\* C23: while an attempt runs the tail holds at most 30 lines, and they are
\* the latest non-empty lines of what the attempt's transcoder has printed
\* on stderr so far, in order; an attempt starts with an empty tail.
C23_TailOfAttempt ==
    rrPhase = "running" =>
        /\ Len(rrTail) <= TailLimit
        /\ rrTail = LastLines(linesOf(Delivered))
        /\ rrChunks = 0 => rrTail = <<>>

(***************************************************************************)
(* Claims about the background image (SpecBackground)                      *)
(***************************************************************************)
\* C19: when the background type is image and the first attempt runs with
\* the solid-color path, whatever the reason (no file at the path, imagePath
\* empty or unset, a file:// URL that cannot be parsed), a warning progress
\* message has been sent to the window before that attempt.
C19_FallbackWarned ==
    (bgPc = "runRender" /\ bgWindow /\ bgBackground.type = "image"
        /\ ~bgPlan.imageBackgroundEnabled) =>
        \E i \in 1..Len(bgSent) : bgSent[i].rawLine = "Background image not found"

(***************************************************************************)
(* Claims about the frame margin (SpecMargin)                              *)
(***************************************************************************)
\* C20: for every export size and every padding and inset the margin is at
\* most half of the smaller export dimension and the interior is positive
\* and never larger than the export frame.
C20_MarginAndInterior ==
    mgScale # Undefined =>
        /\ 2 * mgScale.margin <= mgExport.width
        /\ 2 * mgScale.margin <= mgExport.height
        /\ 0 < mgScale.innerWidth /\ 0 < mgScale.innerHeight
        /\ mgScale.innerWidth <= mgExport.width
        /\ mgScale.innerHeight <= mgExport.height

(***************************************************************************)
(* C21  One segment {0, 1000, level 2, target (0.25, 0.75)}, 1920x1080     *)
(*      source and export: for the frame at t = 500 ms the compiled scale  *)
(*      and crop cut a window of 960x540 source pixels whose offset, in    *)
(*      source pixels, lies in [0,960] x [0,540].                          *)
(***************************************************************************)
\* a length of the scaled frame, in pixels of the source frame
InSourcePixels(length, scaled, source) == Div(Mul(length, source), scaled)

C21_ExampleRendered ==
    /\ zooms = <<ExampleSegment>> /\ atMs = Whole(500)
    /\ FrameWidth = 1920 /\ FrameHeight = 1080
    /\ frame # Undefined

C21_ExampleCrop ==
    C21_ExampleRendered =>
        /\ frame.dynamicZoom
        /\ InSourcePixels(frame.cropW, frame.scaleW, Whole(FrameWidth)) = Whole(960)
        /\ InSourcePixels(frame.cropH, frame.scaleH, Whole(FrameHeight)) = Whole(540)
        /\ LET x == InSourcePixels(frame.cropX, frame.scaleW, Whole(FrameWidth))
               y == InSourcePixels(frame.cropY, frame.scaleH, Whole(FrameHeight))
           IN  /\ Le(Whole(0), x) /\ Le(x, Whole(960))
               /\ Le(Whole(0), y) /\ Le(y, Whole(540))

C21_Witness ==
    /\ C21_ExampleRendered
    /\ frame.dynamicZoom
    /\ frame.zoom = Whole(2)
    /\ frame.cropX = Whole(0) /\ frame.cropY = Whole(1080)

(***************************************************************************)
(* Claims about the attempts of the export (Spec, SpecProcessesEnd)        *)
(***************************************************************************)
\* The attempts that have failed so far
FailedAttempts ==
    {k \in 1..Len(children) :
        children[k].settled /\ ~(Succeeded /\ k = Len(children))}

\* The places of the journal that hold an entry of the kind op
JournalPlaces(op) == {i \in 1..Len(journal) : journal[i].op = op}

\* The places where child k was spawned, where it ended, and where the
\* failure of its encoder was announced
SpawnPlaces(k) == {i \in JournalPlaces("spawn") : journal[i].child = k}

EndPlaces(k) == {i \in JournalPlaces("close") \cup JournalPlaces("error") : journal[i].child = k}

FailurePlaces(k) ==
    {i \in JournalPlaces("send") :
        journal[i].message.rawLine =
            <<"Encoder ", children[k].encoder, " failed, trying next available encoder...">>}

\* C22: every failed attempt has exactly one message "Encoder <name> failed,
\* trying next available encoder..." with ratio 0 that names its encoder,
\* sent after its process ended and before the next attempt's process is
\* spawned; no other such message is sent.
C22_OneFailureMessage ==
    /\ \A k \in FailedAttempts :
          /\ Cardinality(FailurePlaces(k)) = 1
          /\ \A i \in FailurePlaces(k) :
                /\ journal[i].message.ratio = Whole(0)
                /\ \E e \in EndPlaces(k) : e < i
                /\ \A n \in SpawnPlaces(k + 1) : i < n
    /\ Cardinality(JournalPlaces("send")) = Cardinality(FailedAttempts)

\* C22 witness: two attempts have failed, one by a nonzero exit and one that
\* could not be started, and the third encoder is running.
C22_Witness ==
    /\ FailedAttempts = {1, 2}
    /\ Len(children) = 3 /\ children[3].status = "alive"
    /\ \E i \in JournalPlaces("close"), j \in JournalPlaces("error") : i < j
    /\ Cardinality(JournalPlaces("send")) = 2

\* C24: whenever a transcoder is spawned there is no file at the output
\* path: a file that was there before the export, or that a failed attempt
\* left, has been removed first; and the removal never fails the export for
\* want of a file.
C24_NoFileAtSpawn ==
    /\ \A i \in JournalPlaces("spawn") : ~journal[i].outputExists
    /\ \A i \in JournalPlaces("unlinkSync") :
          i < Len(journal) /\ journal[i + 1].op = "spawn"
    /\ outcome.status = "rejected" => outcome.message # unlinkError
    /\ pc = "runRender" => SpawnPlaces(attempt) # {}

\* C24 witness: a file was there before the export and was removed, the first
\* attempt left a file and failed, that file was removed too before the
\* second spawn, and the second attempt failed leaving none, so the third
\* was spawned with nothing to remove.
C24_Witness ==
    /\ Len(journal) >= 9
    /\ journal[1].op = "unlinkSync" /\ journal[2].op = "spawn"
    /\ journal[5].op = "unlinkSync" /\ journal[6].op = "spawn"
    /\ journal[8].op = "send" /\ journal[9].op = "spawn"

\* The export failed after the last encoder of the chain
Exhausted == outcome.status = "rejected"

\* C25: if every spawned transcoder ends, an export that has started its
\* attempts comes to an end, succeeded or exhausted; each encoder of the
\* chain is tried at most once, so there are at most 5 attempts; and once
\* the export has ended nothing more is spawned.
C25_Terminates ==
    /\ (pc = "runRender") ~> (pc = "done" /\ (Succeeded \/ Exhausted))
    /\ [](/\ Len(children) <= 5
          /\ \A j, k \in 1..Len(children) :
                children[j].encoder = children[k].encoder => j = k)
    /\ [][pc = "done" => children' = children]_vars

\* C25 witness: a chain of five encoders was tried to its end.
C25_Witness ==
    /\ pc = "done" /\ Exhausted
    /\ Len(encoderAttempts) = 5 /\ Len(children) = 5

\* C26: when the export has failed after the last encoder, there is no file
\* at the output path.
C26_NoFileAfterExhaustion == Exhausted => ~fileExists

(***************************************************************************)
(* Claims about the studio's auto-save (SpecAutosave)                      *)
(***************************************************************************)
\* C27: no edit is lost: every edit the user has made is in the editor's
\* project, also after the answer to a save that was in flight when the
\* edit was made (so that a later save can write it).
C27_EditsKept ==
    asProject # Undefined => \A e \in 1..asEdits : e \in asProject.edits

\* C28: auto-save comes to rest: the answer to a save request does not
\* schedule another save; the pending timer is what it was before.
C28_SaveSchedulesNoSave ==
    [][Len(asInFlight') < Len(asInFlight) => asTimer' = asTimer]_vars

(***************************************************************************)
(* Claims about the record page (SpecRecording)                            *)
(***************************************************************************)
\* The recorders that are recording or paused
ActiveRecorders == {r \in 1..Len(recRecorders) : recRecorders[r].state # "inactive"}

\* C29: a recording that was cancelled while recording or paused is
\* discarded: the page does not go on to save it and no project is created
\* from it.
C29_CancelDiscards ==
    \A r \in 1..Len(recRecorders) :
        recRecorders[r].cancelled =>
            /\ recRecorders[r].fate \notin {"saving", "saved"}
            /\ recState # "saving"

\* C30: after a cancel during the countdown the page stays idle and nothing
\* is recorded until Start is pressed again; and at most one recorder is
\* active at any time.
C30_CancelStopsCountdown ==
    /\ recCancelledCountdown => (recState = "idle" /\ ActiveRecorders = {})
    /\ Cardinality(ActiveRecorders) <= 1

====
